---- MODULE Spec2Model ----
(***************************************************************************)
(* Ranking and comparable search of app.py over the numeric table df_num.  *)
(*                                                                         *)
(* A table is a sequence of rows; a row carries the identifying key        *)
(* (구역 zone, 단지명 complex, 동 dong, 호 ho) and one valuation per year  *)
(* column.  Valuations (억) are modelled as small naturals, a missing      *)
(* valuation (pd.NA / NaN) as NA.  A rank text "r/n" is the pair <<r, n>>, *)
(* the empty text is <<>>.                                                 *)
(***************************************************************************)
EXTENDS Integers, Sequences, FiniteSets, TLC

\* ------------------------------------------------------------------ bounds
\* rows of a table
MaxRows == 3
\* columns of a header
MaxCols == 2
\* rows of a sheet given to the cleaning
MaxCleanRows == 2
\* rows of a sheet after its title rows
MaxTailRows == 2

\* ------------------------------------------------------------ value domains
NA == -1
Zones == {"Z1", "Z2"}
Complexes == {"H"}
Dongs == {1}
Hos == {1, 2}
Prices == {0, 1, 2}
PriceOrNA == Prices \cup {NA}

YEAR_2016 == 2016
YEAR_LAST == 2025
\* a year that is no column of any table
YearAbsent == YEAR_2016 - 1

VARIABLES
    df,    \* df_num, the normalized numeric table
    call,  \* the request being served: the operation and its arguments
    ret    \* what the operation returned (or raised)

vars == <<df, call, ret>>

\* ------------------------------------------------------------------ tables
Idx(d) == 1 .. Len(d)

Columns(d) == IF Len(d) = 0 THEN {} ELSE DOMAIN d[1].price

SetToSortedSeq(S) ==
    LET RECURSIVE build(_)
        build(T) == IF T = {} THEN <<>>
                    ELSE LET m == CHOOSE x \in T : \A y \in T : x <= y
                         IN <<m>> \o build(T \ {m})
    IN build(S)

First(S) == CHOOSE i \in S : \A j \in S : i <= j

\* _filter_year_cols_with_data keeping every year column
filter_year_cols_keep_all(d, year_cols) == year_cols

\* _filter_year_cols_with_data keeping the year columns without a gap
filter_year_cols_without_gaps(d, year_cols) ==
    SelectSeq(year_cols, LAMBDA y : \A i \in Idx(d) : d[i].price[y] # NA)

\* _filter_year_cols_with_data: the year columns with at least one value
filter_year_cols_with_data(d, year_cols) ==
    SelectSeq(year_cols, LAMBDA y : \E i \in Idx(d) : d[i].price[y] # NA)

\* year_cols as the script passes it on: detected, with data, 2016 onwards
year_cols_of(d) ==
    SelectSeq(filter_year_cols_with_data(d, SetToSortedSeq(Columns(d))),
              LAMBDA y : y >= YEAR_2016)

Max(a, b) == IF a >= b THEN a ELSE b
Min(a, b) == IF a <= b THEN a ELSE b

\* the elements of a sequence, as a set
Range(q) == {q[k] : k \in DOMAIN q}

\* ----------------------------------------------------------------- ranking
\* Series.rank(method="min", ascending=False) over the rows idxs of d, with
\* dense ranks instead of competition ranks
rank_dense(d, idxs, y, i) ==
    IF d[i].price[y] = NA THEN NA
    ELSE 1 + Cardinality({d[j].price[y] : j \in
                 {k \in idxs : d[k].price[y] # NA /\ d[k].price[y] > d[i].price[y]}})

\* ... ranking ascending instead of descending
rank_ascending(d, idxs, y, i) ==
    IF d[i].price[y] = NA THEN NA
    ELSE 1 + Cardinality({j \in idxs : d[j].price[y] # NA
                                        /\ d[j].price[y] < d[i].price[y]})

\* ... with na_option="top": missing values are ranked first
rank_na_top(d, idxs, y, i) ==
    IF d[i].price[y] = NA THEN 1
    ELSE 1 + Cardinality({j \in idxs : d[j].price[y] = NA
                                        \/ d[j].price[y] > d[i].price[y]})

\* Series.rank(method="min", ascending=False) over the rows idxs of d:
\* NaN stays NaN, any other value gets 1 + the number of strictly larger values
rank_min(d, idxs, y, i) ==
    IF d[i].price[y] = NA THEN NA
    ELSE 1 + Cardinality({j \in idxs : d[j].price[y] # NA
                                        /\ d[j].price[y] > d[i].price[y]})

\* _fmt_rank: "" for a missing rank or total, else "rank/total"
fmt_rank(rank, total) ==
    IF rank = NA \/ total = NA THEN <<>> ELSE <<rank, total>>

KeyMatch(r, zone, complex_name, dong, ho) ==
    r.zone = zone /\ r.complex = complex_name /\ r.dong = dong /\ r.ho = ho

PickIdx(d, zone, complex_name, dong, ho) ==
    {i \in Idx(d) : KeyMatch(d[i], zone, complex_name, dong, ho)}

ZoneIdx(d, zone) == {i \in Idx(d) : d[i].zone = zone}

\* compute_rank_tables returning empty tables for a key that matches no row
compute_rank_tables_no_raise(d, year_cols, zone, complex_name, dong, ho) ==
    [kind |-> "tables", zone_table |-> <<>>, all_table |-> <<>>]

\* compute_rank_tables with all_n counting only the rows outside the zone
compute_rank_tables_body_all_n_outside(d, year_cols, zone, complex_name, dong, ho) ==
    LET pick == PickIdx(d, zone, complex_name, dong, ho)
        pick_row == First(pick)
        zone_df == ZoneIdx(d, zone)
        all_df == Idx(d)
        zone_n == Cardinality(zone_df)
        all_n == Cardinality(all_df \ zone_df)
        zr == First({i \in zone_df : d[i].complex = complex_name
                                     /\ d[i].dong = dong /\ d[i].ho = ho})
        ar == First({i \in all_df : KeyMatch(d[i], zone, complex_name, dong, ho)})
        \* the loop skips the years in which the picked row has no valuation
        kept == SelectSeq(year_cols, LAMBDA y : d[pick_row].price[y] # NA)
        zone_rows == [k \in 1 .. Len(kept) |->
                        [year |-> kept[k], price |-> d[pick_row].price[kept[k]],
                         rank |-> fmt_rank(rank_min(d, zone_df, kept[k], zr), zone_n)]]
        all_rows == [k \in 1 .. Len(kept) |->
                        [year |-> kept[k], price |-> d[pick_row].price[kept[k]],
                         rank |-> fmt_rank(rank_min(d, all_df, kept[k], ar), all_n)]]
        clean(t) == SelectSeq(SelectSeq(t, LAMBDA e : e.price # NA),
                              LAMBDA e : e.rank # <<>>)
    IN IF kept = <<>> THEN [kind |-> "KeyError"]
       ELSE [kind |-> "tables", zone_table |-> clean(zone_rows),
             all_table |-> clean(all_rows)]

\* compute_rank_tables with the two pools exchanged: the zone-local rank
\* taken over the whole table, the global rank over the zone
compute_rank_tables_body_pools_exchanged(d, year_cols, zone, complex_name, dong, ho) ==
    LET pick_row == First(PickIdx(d, zone, complex_name, dong, ho))
        zone_df == ZoneIdx(d, zone)
        all_df == Idx(d)
        kept == SelectSeq(year_cols, LAMBDA y : d[pick_row].price[y] # NA)
    IN IF kept = <<>> THEN [kind |-> "KeyError"]
       ELSE [kind |-> "tables",
             zone_table |-> [k \in 1 .. Len(kept) |->
                          [year |-> kept[k], price |-> d[pick_row].price[kept[k]],
                           rank |-> fmt_rank(rank_min(d, all_df, kept[k], pick_row),
                                             Cardinality(zone_df))]],
             all_table |-> [k \in 1 .. Len(kept) |->
                         [year |-> kept[k], price |-> d[pick_row].price[kept[k]],
                          rank |-> fmt_rank(rank_min(d, zone_df, kept[k], pick_row),
                                            Cardinality(all_df))]]]

\* compute_rank_tables from pick_row on. With no row appended, pd.DataFrame([])
\* has no columns and dropna(subset=["공시가격(억)"]) of line 837 raises
\* KeyError.
compute_rank_tables_body(d, year_cols, zone, complex_name, dong, ho) ==
    LET pick == PickIdx(d, zone, complex_name, dong, ho)
        pick_row == First(pick)
        zone_df == ZoneIdx(d, zone)
        all_df == Idx(d)
        zone_n == Cardinality(zone_df)
        all_n == Cardinality(all_df)
        zr == First({i \in zone_df : d[i].complex = complex_name
                                     /\ d[i].dong = dong /\ d[i].ho = ho})
        ar == First({i \in all_df : KeyMatch(d[i], zone, complex_name, dong, ho)})
        \* the loop skips the years in which the picked row has no valuation
        kept == SelectSeq(year_cols, LAMBDA y : d[pick_row].price[y] # NA)
        zone_rows == [k \in 1 .. Len(kept) |->
                        [year |-> kept[k], price |-> d[pick_row].price[kept[k]],
                         rank |-> fmt_rank(rank_min(d, zone_df, kept[k], zr), zone_n)]]
        all_rows == [k \in 1 .. Len(kept) |->
                        [year |-> kept[k], price |-> d[pick_row].price[kept[k]],
                         rank |-> fmt_rank(rank_min(d, all_df, kept[k], ar), all_n)]]
        clean(t) == SelectSeq(SelectSeq(t, LAMBDA e : e.price # NA),
                              LAMBDA e : e.rank # <<>>)
    IN IF kept = <<>> THEN [kind |-> "KeyError"]
       ELSE [kind |-> "tables", zone_table |-> clean(zone_rows),
             all_table |-> clean(all_rows)]

\* what compute_rank_tables does when pick is empty
rank_not_found(d, year_cols, zone, complex_name, dong, ho) ==
    [kind |-> "ValueError"]

compute_rank_tables(d, year_cols, zone, complex_name, dong, ho) ==
    IF PickIdx(d, zone, complex_name, dong, ho) = {}
    THEN rank_not_found(d, year_cols, zone, complex_name, dong, ho)
    ELSE compute_rank_tables_body(d, year_cols, zone, complex_name, dong, ho)

\* ------------------------------------------------------- comparable search
\* Python orders the zone and complex names as strings
StrOrd(s) == CASE s = "H" -> 0 [] s = "Z1" -> 1 [] s = "Z2" -> 2

Abs(x) == IF x < 0 THEN -x ELSE x

\* lexicographic order of two integer tuples of the same length
RECURSIVE LexLess(_, _)
LexLess(a, b) ==
    IF a = <<>> THEN FALSE
    ELSE IF Head(a) # Head(b) THEN Head(a) < Head(b)
    ELSE LexLess(Tail(a), Tail(b))

\* the first element of S in the order given by the sort key (a stable sort:
\* rows with equal keys keep their table order)
ArgFirst(S, sortkey) ==
    CHOOSE i \in S : \A j \in S \ {i} :
        \/ LexLess(sortkey[i], sortkey[j])
        \/ sortkey[i] = sortkey[j] /\ i < j

\* sort_values(["diff", "구역", "단지명", "동", "호"]) without the key columns
simple_sort_key_diff_only(d, y, base_price, i) ==
    <<Abs(d[i].price[y] - base_price)>>

\* sort_values(["diff", "구역", "단지명", "동", "호"])
simple_sort_key(d, y, base_price, i) ==
    <<Abs(d[i].price[y] - base_price), StrOrd(d[i].zone), StrOrd(d[i].complex),
      d[i].dong, d[i].ho>>

\* cand = rows outside base_zone whose p2016 is not missing, taken without
\* the dropna
simple_candidates_keep_na(d, base_zone, y) ==
    {i \in Idx(d) : d[i].zone # base_zone}

\* cand = rows outside base_zone whose p2016 is not missing
simple_candidates(d, base_zone, y) ==
    {i \in Idx(d) : d[i].zone # base_zone /\ d[i].price[y] # NA}

None == [kind |-> "None"]

find_closest_by_2016(d, base_zone, base_key, year2016) ==
    IF year2016 \notin Columns(d) THEN None
    ELSE
    LET base_row == PickIdx(d, base_key[1], base_key[2], base_key[3], base_key[4])
    IN IF base_row = {} THEN None
       ELSE
       LET base_price == d[First(base_row)].price[year2016]
       IN IF base_price = NA THEN None
          ELSE
          LET cand == simple_candidates(d, base_zone, year2016)
          IN IF cand = {} THEN None
             ELSE
             LET key == [i \in cand |-> simple_sort_key(d, year2016, base_price, i)]
                 best == ArgFirst(cand, key)
             IN [kind |-> "dict",
                 base_price |-> base_price,
                 cmp_zone |-> d[best].zone,
                 cmp_complex |-> d[best].complex,
                 cmp_dong |-> d[best].dong,
                 cmp_ho |-> d[best].ho,
                 cmp_price |-> d[best].price[year2016],
                 diff |-> Abs(d[best].price[year2016] - base_price)]

\* ---------------------------------------------- comparable search: inversion
\* the rows of S as sort_values orders them by sortkey (stable)
RECURSIVE SortRows(_, _)
SortRows(S, sortkey) ==
    IF S = {} THEN <<>>
    ELSE LET m == ArgFirst(S, sortkey)
         IN <<m>> \o SortRows(S \ {m}, sortkey)

\* is_inversion without the test that the two differences have opposite signs
is_inversion_nonzero_only(diff_2016, diff_last) ==
    diff_2016 # 0 /\ diff_last # 0

\* is_inversion: both rank differences non-zero and of opposite signs
is_inversion(diff_2016, diff_last) ==
    diff_2016 # 0 /\ diff_last # 0 /\ diff_2016 * diff_last < 0

EmptyFrame == [kind |-> "empty", rows |-> <<>>]

\* one row of cand_out: the candidate of row i with its derived columns
cand_out_row(d, i, year2016, last_year, base_idx, base_r2016, base_rlast, cmp_r2016, cmp_rlast) ==
    [row |-> i,
     base_price_2016 |-> d[base_idx].price[year2016],
     base_rank_2016 |-> base_r2016,
     base_price_last |-> d[base_idx].price[last_year],
     base_rank_last |-> base_rlast,
     base_rank_change_abs |-> Abs(base_rlast - base_r2016),
     cmp_zone |-> d[i].zone,
     cmp_complex |-> d[i].complex,
     cmp_dong |-> d[i].dong,
     cmp_ho |-> d[i].ho,
     cmp_price_2016 |-> d[i].price[year2016],
     cmp_rank_2016 |-> cmp_r2016,
     cmp_price_last |-> d[i].price[last_year],
     cmp_rank_last |-> cmp_rlast,
     diff_price_2016 |-> Abs(d[i].price[year2016] - d[base_idx].price[year2016]),
     cand_rank_change_abs |-> Abs(cmp_rlast - cmp_r2016),
     relative_rank_swing |->
         Abs((base_rlast - cmp_rlast) - (base_r2016 - cmp_r2016))]

\* cand_out.sort_values(["diff_price_2016", "relative_rank_swing",
\* "cand_rank_change_abs", zone, complex, building, unit],
\* ascending=[True, False, False, True, True, True, True])
cand_out_sort_key(r) ==
    <<r.diff_price_2016, -r.relative_rank_swing, -r.cand_rank_change_abs,
      StrOrd(r.cmp_zone), StrOrd(r.cmp_complex), r.cmp_dong, r.cmp_ho>>

\* cand_out: the rows of inv with their derived columns, sorted
cand_out(d, inv, year2016, last_year, base_idx, r2016, rlast) ==
    LET out == [i \in inv |->
                  cand_out_row(d, i, year2016, last_year, base_idx,
                               r2016[base_idx], rlast[base_idx], r2016[i], rlast[i])]
        order == SortRows(inv, [i \in inv |-> cand_out_sort_key(out[i])])
    IN [kind |-> "frame", rows |-> [k \in 1 .. Len(order) |-> out[order[k]]]]

\* the candidates once the two rank columns are computed: rows outside
\* base_zone with both valuations and both ranks, kept when inverted
cand_ranked(d, base_zone, year2016, last_year, base_idx, r2016, rlast) ==
    IF r2016[base_idx] = NA \/ rlast[base_idx] = NA THEN EmptyFrame
    ELSE LET cand == {i \in Idx(d) :
                        /\ d[i].zone # base_zone
                        /\ d[i].price[year2016] # NA /\ d[i].price[last_year] # NA
                        /\ r2016[i] # NA /\ rlast[i] # NA}
             inv == {i \in cand : is_inversion(r2016[base_idx] - r2016[i],
                                               rlast[base_idx] - rlast[i])}
         IN IF inv = {} THEN EmptyFrame
            ELSE cand_out(d, inv, year2016, last_year, base_idx, r2016, rlast)

\* find_candidates_by_2016_with_rank_inversion (require_inversion=True): the
\* candidate rows in the order of cand_out, with their derived columns
find_candidates_by_2016_with_rank_inversion(d, base_zone, base_key, year2016, last_year) ==
    IF year2016 \notin Columns(d) \/ last_year \notin Columns(d) THEN EmptyFrame
    ELSE
    LET base_row == PickIdx(d, base_key[1], base_key[2], base_key[3], base_key[4])
    IN IF base_row = {} THEN EmptyFrame
       ELSE IF \/ d[First(base_row)].price[year2016] = NA
               \/ d[First(base_row)].price[last_year] = NA THEN EmptyFrame
       ELSE cand_ranked(d, base_zone, year2016, last_year, First(base_row),
                        [i \in Idx(d) |-> rank_min(d, Idx(d), year2016, i)],
                        [i \in Idx(d) |-> rank_min(d, Idx(d), last_year, i)])

\* top_n = max(1, int(top_n_closest)); cand.head(top_n) if len(cand) > top_n
head_top_n(rows, top_n_closest) ==
    LET top_n == Max(1, top_n_closest)
    IN IF Len(rows) > top_n THEN SubSeq(rows, 1, top_n) ELSE rows

\* sort_values(["relative_rank_swing", "cand_rank_change_abs",
\* "diff_price_2016"], ascending=[False, False, True]) by the swing alone
best_sort_key_swing_only(r) == <<-r.relative_rank_swing>>

\* sort_values(["relative_rank_swing", "cand_rank_change_abs",
\* "diff_price_2016"], ascending=[False, False, True])
best_sort_key(r) ==
    <<-r.relative_rank_swing, -r.cand_rank_change_abs, r.diff_price_2016>>

\* best = cand_top.sort_values(...).iloc[0]
best_of(cand_top) ==
    cand_top[ArgFirst(DOMAIN cand_top,
                      [k \in DOMAIN cand_top |-> best_sort_key(cand_top[k])])]

\* the dict returned for best; cand_top is not returned: it holds the rows of
\* the window, for the claims on the window
best_dict(best, cand_top, year2016, last_year) ==
    [kind |-> "dict",
     year2016 |-> year2016,
     last_year |-> last_year,
     base_price_2016 |-> best.base_price_2016,
     base_rank_2016 |-> best.base_rank_2016,
     base_price_last |-> best.base_price_last,
     base_rank_last |-> best.base_rank_last,
     base_rank_change_abs |-> best.base_rank_change_abs,
     cmp_zone |-> best.cmp_zone,
     cmp_complex |-> best.cmp_complex,
     cmp_dong |-> best.cmp_dong,
     cmp_ho |-> best.cmp_ho,
     cmp_price_2016 |-> best.cmp_price_2016,
     cmp_rank_2016 |-> best.cmp_rank_2016,
     cmp_price_last |-> best.cmp_price_last,
     cmp_rank_last |-> best.cmp_rank_last,
     cand_rank_change_abs |-> best.cand_rank_change_abs,
     diff_price_2016 |-> best.diff_price_2016,
     relative_rank_swing |-> best.relative_rank_swing,
     cand_top |-> [k \in DOMAIN cand_top |-> cand_top[k].row]]

\* the window cand_top of cand and the dict of its best row
best_in_window(cand_top, year2016, last_year) ==
    best_dict(best_of(cand_top), cand_top, year2016, last_year)

\* find_closest_by_2016_with_rank_inversion taking a breadth below one as an
\* empty window
find_closest_inversion_empty_window(d, base_zone, base_key, year2016, last_year, top_n_closest) ==
    LET cand == find_candidates_by_2016_with_rank_inversion(d, base_zone, base_key,
                                                            year2016, last_year)
    IN IF cand.kind = "empty" \/ top_n_closest < 1 THEN None
       ELSE best_in_window(head_top_n(cand.rows, top_n_closest), year2016, last_year)

find_closest_by_2016_with_rank_inversion(d, base_zone, base_key, year2016, last_year, top_n_closest) ==
    LET cand == find_candidates_by_2016_with_rank_inversion(d, base_zone, base_key,
                                                            year2016, last_year)
    IN IF cand.kind = "empty" THEN None
       ELSE best_in_window(head_top_n(cand.rows, top_n_closest), year2016, last_year)

\* ------------------------------------------------------------------ loading
\* The cells of a sheet as loaded: a number, a text or an empty cell.
NumCell(n) == [t |-> "num", v |-> n]
StrCell(x) == [t |-> "str", v |-> x]
NaCell == [t |-> "na"]

\* pd.to_numeric(errors="coerce") that parses texts and takes every other
\* cell as unparsable
to_numeric_text_only(c) ==
    IF c.t = "str"
    THEN CASE c.v = "0" -> NumCell(0)
           [] c.v = "1" -> NumCell(1)
           [] c.v = "2" -> NumCell(2)
           [] OTHER -> NaCell
    ELSE NaCell

\* pd.to_numeric(errors="coerce") followed by fillna(0): a cell that is no
\* number becomes 0
to_numeric_fillna_zero(c) ==
    CASE c.t = "num" -> c
      [] c.t = "str" ->
           (CASE c.v = "0" -> NumCell(0)
              [] c.v = "1" -> NumCell(1)
              [] c.v = "2" -> NumCell(2)
              [] OTHER -> NumCell(0))
      [] OTHER -> NumCell(0)

\* pd.to_numeric(errors="coerce") of one cell: a number stays, a text that
\* reads as a number becomes that number, anything else becomes NaN
to_numeric(c) ==
    CASE c.t = "num" -> c
      [] c.t = "str" ->
           (CASE c.v = "0" -> NumCell(0)
              [] c.v = "1" -> NumCell(1)
              [] c.v = "2" -> NumCell(2)
              [] OTHER -> NaCell)
      [] OTHER -> NaCell

\* _coerce_numeric: df.copy() with every column of cols that the table has
\* replaced by its to_numeric
coerce_numeric(d, cols) ==
    [i \in DOMAIN d |->
       [d[i] EXCEPT !.price =
          [y \in DOMAIN d[i].price |->
             IF y \in Range(cols) THEN to_numeric(d[i].price[y])
             ELSE d[i].price[y]]]]

\* DEFAULT_MAX_DATA_ROWS
MAX_DATA_ROWS == 10337

\* the identifying columns, in the order _clean_main_df looks for them
required == <<"zone", "complex", "dong", "ho">>

\* A sheet as loaded: the identifying columns it has, and its rows; the
\* other columns are those of the price cells of the rows, named by numbers.
SheetColumns(sheet) ==
    IF Len(sheet.rows) = 0 THEN {} ELSE DOMAIN sheet.rows[1].price

\* _clean_main_df: the first identifying column that is absent raises a
\* ValueError naming it and listing the columns of the sheet; otherwise the
\* rows without a unit number or with the zone "nan" are dropped
clean_main_df(sheet) ==
    LET absent == {k \in DOMAIN required : required[k] \notin sheet.required}
    IN IF absent # {}
       THEN [kind |-> "ValueError", missing |-> {required[First(absent)]},
             columns |-> [required |-> sheet.required, other |-> SheetColumns(sheet)]]
       ELSE [kind |-> "df",
             rows |-> SelectSeq(SubSeq(sheet.rows, 1, Min(Len(sheet.rows), MAX_DATA_ROWS)),
                                LAMBDA r : r.ho # NA /\ r.zone # "nan")]

\* _detect_year_cols: the columns whose name is four digits, ascending
detect_year_cols(d) ==
    SetToSortedSeq({c \in Columns(d) : c >= 1000 /\ c <= 9999})

\* Column names as texts: a text is a sequence of characters. The characters
\* of the names are digits, ".", "+", "-", the blank and letters.
DigitChars == <<"0", "1", "2", "3", "4", "5", "6", "7", "8", "9">>

IsDigit(c) == c \in Range(DigitChars)

DigitVal(c) == (CHOOSE k \in DOMAIN DigitChars : DigitChars[k] = c) - 1

\* the number a run of digits reads as (0 for the empty run)
RECURSIVE DecVal(_)
DecVal(s) ==
    IF Len(s) = 0 THEN 0
    ELSE 10 * DecVal(SubSeq(s, 1, Len(s) - 1)) + DigitVal(s[Len(s)])

\* str(n) of a natural n
RECURSIVE DecStr(_)
DecStr(n) ==
    IF n < 10 THEN <<DigitChars[n + 1]>>
    ELSE DecStr(n \div 10) \o <<DigitChars[(n % 10) + 1]>>

\* str.strip(): the text without its leading and trailing blanks
RECURSIVE strip(_)
strip(s) ==
    IF Len(s) = 0 THEN s
    ELSE IF s[1] = " " THEN strip(Tail(s))
    ELSE IF s[Len(s)] = " " THEN strip(SubSeq(s, 1, Len(s) - 1))
    ELSE s

\* YEAR_RE.match(s), YEAR_RE = ^\d{4}$ on a stripped text
YEAR_RE_match(s) == Len(s) = 4 /\ \A k \in 1 .. 4 : IsDigit(s[k])

\* float(s) on a stripped text of these characters: an optional sign, then
\* digits with at most one "." and at least one digit; ValueError otherwise
float_of(s) ==
    LET signed == Len(s) > 0 /\ s[1] \in {"+", "-"}
        body == IF signed THEN Tail(s) ELSE s
        dots == {k \in DOMAIN body : body[k] = "."}
        p == IF dots = {} THEN Len(body) + 1 ELSE First(dots)
        whole == SubSeq(body, 1, p - 1)
        frac == SubSeq(body, p + 1, Len(body))
    IN IF \/ Cardinality(dots) > 1
          \/ Len(whole) + Len(frac) = 0
          \/ \E k \in DOMAIN body : k # p /\ ~IsDigit(body[k])
       THEN [kind |-> "ValueError"]
       ELSE [kind |-> "float", negative |-> signed /\ s[1] = "-",
             whole |-> DecVal(whole), frac |-> frac,
             is_integer |-> \A k \in DOMAIN frac : frac[k] = "0"]

\* str(int(f)) of a float
str_int(f) ==
    IF f.negative /\ f.whole # 0 THEN <<"-">> \o DecStr(f.whole) ELSE DecStr(f.whole)

\* the loop body of _detect_year_cols: what one column adds to year_cols
detect_year_name(c) ==
    LET s == strip(c)
    IN IF YEAR_RE_match(s) THEN {s}
       ELSE IF float_of(s).kind = "float" /\ float_of(s).is_integer
                  /\ YEAR_RE_match(str_int(float_of(s)))
       THEN {str_int(float_of(s))}
       ELSE {}

\* sorted(S, key=int) of four-digit texts
RECURSIVE sorted_by_int(_)
sorted_by_int(S) ==
    IF S = {} THEN <<>>
    ELSE LET m == CHOOSE x \in S : \A y \in S : DecVal(x) <= DecVal(y)
         IN <<m>> \o sorted_by_int(S \ {m})

\* _detect_year_cols on the column names of a table
detect_year_cols_of_names(columns) ==
    sorted_by_int(UNION {detect_year_name(columns[k]) : k \in DOMAIN columns})

\* df.columns = [str(c).strip() for c in df.columns] of _normalize_columns
normalize_columns(header) == [k \in DOMAIN header |-> strip(header[k])]

\* the column lookups by a detected year: _coerce_numeric skips a year that
\* is no column, df[y] of _filter_year_cols_with_data raises KeyError
year_lookups(columns, year_cols) ==
    LET absent == {k \in DOMAIN year_cols : year_cols[k] \notin Range(columns)}
    IN IF absent = {} THEN [kind |-> "ok"]
       ELSE [kind |-> "KeyError", key |-> year_cols[First(absent)]]

\* df.replace({"": pd.NA, " ": pd.NA}) of _normalize_columns on one cell text
normalize_cell(text) ==
    IF text = <<>> \/ text = <<" ">> THEN NaCell ELSE StrCell(text)

\* str.lower() on the letters of the cell texts
lower_char(c) ==
    CASE c = "N" -> "n" [] c = "A" -> "a" [] c = "Z" -> "z" [] OTHER -> c

lower(s) == [k \in DOMAIN s |-> lower_char(s[k])]

\* str(pd.NA)
NA_TEXT == <<"<", "N", "A", ">">>

\* How the build holds a text column: pandas before 3 as object, where
\* astype(str) writes a missing cell as the text <NA>; pandas 3 as str, where
\* a missing cell stays missing.
TextDtypes == {"object", "str"}

\* df[c].astype(str).str.strip() on one cell
astype_str_strip(c, dtype) ==
    IF c.t = "na"
    THEN (IF dtype = "object" THEN StrCell(NA_TEXT) ELSE NaCell)
    ELSE StrCell(strip(c.v))

\* pd.to_numeric(errors="coerce") on one cell of text: blanks around the
\* numeral are skipped, a text that float() does not read (a letter, a comma)
\* becomes NaN
to_numeric_text(c) ==
    IF c.t = "na" \/ float_of(strip(c.v)).kind # "float" THEN NaCell
    ELSE [t |-> "float", v |-> float_of(strip(c.v))]

\* .astype("Int64") of a cell: NaN becomes NA, an integral float the integer;
\* any other float makes astype raise TypeError
astype_Int64(c) ==
    IF c.t = "na" THEN NaCell
    ELSE IF ~c.v.is_integer THEN [t |-> "TypeError"]
    ELSE NumCell(IF c.v.negative THEN 0 - c.v.whole ELSE c.v.whole)

\* lines 589-592 on one row; row is its position in df_raw
clean_row(r, i, dtype) ==
    [row |-> i,
     zone |-> astype_str_strip(r.zone, dtype),
     complex |-> astype_str_strip(r.complex, dtype),
     dong |-> astype_Int64(to_numeric_text(r.dong)),
     ho |-> astype_Int64(to_numeric_text(r.ho))]

\* df.dropna(subset=[...]) and the "nan" filter of line 595, on one row
clean_row_kept(r) ==
    /\ r.zone.t # "na" /\ r.complex.t # "na" /\ r.dong.t # "na" /\ r.ho.t # "na"
    /\ lower(r.zone.v) # <<"n", "a", "n">>
    /\ lower(r.complex.v) # <<"n", "a", "n">>

\* _clean_main_df from line 589 on, for a table that has the four columns
clean_rows(raw, dtype) ==
    LET typed == [i \in DOMAIN raw |-> clean_row(raw[i], i, dtype)]
    IN IF \E i \in DOMAIN typed : typed[i].dong.t = "TypeError" \/ typed[i].ho.t = "TypeError"
       THEN [kind |-> "TypeError"]
       ELSE [kind |-> "df", rows |-> SelectSeq(typed, clean_row_kept)]

\* The column names load_from_gsheet looks for, as texts.
T_zone == <<"z", "o", "n", "e">>
T_address == <<"a", "d", "d", "r", "e", "s", "s">>
T_complex == <<"c", "o", "m", "p", "l", "e", "x">>
T_dong == <<"d", "o", "n", "g">>
T_ho == <<"h", "o">>

must_have_sets ==
    { {T_zone, T_complex, T_dong, T_ho}, {T_address, T_complex, T_dong, T_ho} }

\* for i, row in enumerate(values[:50])
HEADER_SCAN_ROWS == 50

\* cells = [str(x).strip() for x in row]; any(ms.issubset(set(cells)) ...)
is_header_row(row) ==
    \E ms \in must_have_sets : ms \subseteq {strip(row[j]) : j \in DOMAIN row}

\* header_row_index with the scan going over every row of the sheet
header_row_index_whole_sheet(values) ==
    LET found == {i \in 1 .. Len(values) : is_header_row(values[i])}
    IN IF found = {} THEN 0 ELSE First(found) - 1

\* header_row_index (counted from 0, as in the code): the first row of
\* values[:50] that is a header row, else 0
header_row_index(values) ==
    LET found == {i \in 1 .. Min(Len(values), HEADER_SCAN_ROWS) : is_header_row(values[i])}
    IN IF found = {} THEN 0 ELSE First(found) - 1

\* the header: the stripped cells of the header row, _col<j> for an empty one
header_names(row) ==
    [j \in DOMAIN row |->
       IF strip(row[j]) = <<>> THEN <<"_", "c", "o", "l">> \o DecStr(j - 1)
       ELSE strip(row[j])]

\* _normalize_columns on the column names: address becomes zone when there
\* is no zone column
rename_address(header) ==
    IF T_zone \notin Range(header)
    THEN [j \in DOMAIN header |-> IF header[j] = T_address THEN T_zone ELSE header[j]]
    ELSE header

\* the columns _normalize_columns drops: named _col... and NA in every row
dropped_columns(header, data) ==
    {j \in DOMAIN header :
        /\ Len(header[j]) >= 4 /\ SubSeq(header[j], 1, 4) = <<"_", "c", "o", "l">>
        /\ \A i \in DOMAIN data : normalize_cell(data[i][j]) = NaCell}

\* load_from_gsheet from values on: the header row, the rows after it as
\* data, then _normalize_columns; row is the index of a data row in values
load_from_gsheet(values) ==
    IF Len(values) = 0 THEN [kind |-> "ValueError"]
    ELSE
    LET h == header_row_index(values)
        header == header_names(values[h + 1])
        data == SubSeq(values, h + 2, Len(values))
        keep == SelectSeq([j \in DOMAIN header |-> j],
                          LAMBDA j : j \notin dropped_columns(header, data))
    IN [kind |-> "df",
        header_row_index |-> h,
        columns |-> [k \in DOMAIN keep |-> rename_address(header)[keep[k]]],
        rows |-> [i \in DOMAIN data |->
                    [row |-> h + i,
                     cells |-> [k \in DOMAIN keep |-> normalize_cell(data[i][keep[k]])]]]]

\* The rank text as characters. f"{n:,}": the digits of n in groups of three
\* from the right, with commas between the groups.
RECURSIVE grouped(_)
grouped(n) ==
    IF n < 1000 THEN DecStr(n)
    ELSE grouped(n \div 1000) \o <<",">> \o
         <<DigitChars[((n % 1000) \div 100) + 1], DigitChars[((n % 100) \div 10) + 1],
           DigitChars[(n % 10) + 1]>>

\* _fmt_rank as text: "" for a missing rank or total, else "rank/total"
fmt_rank_text(rank, total) ==
    IF rank = NA \/ total = NA THEN <<>>
    ELSE grouped(rank) \o <<"/">> \o grouped(total)

\* txt.split("/")[0]: the text before the first "/"
before_slash(txt) ==
    LET slashes == {k \in DOMAIN txt : txt[k] = "/"}
    IN IF slashes = {} THEN txt ELSE SubSeq(txt, 1, First(slashes) - 1)

\* int(left) inside try/except: the number a run of digits reads as, None
\* when int() raises
int_or_None(left) ==
    IF Len(left) > 0 /\ \A k \in DOMAIN left : IsDigit(left[k])
    THEN [kind |-> "int", v |-> DecVal(left)]
    ELSE None

\* _parse_rank_text without the replace(",", "")
parse_rank_text_keep_commas(s) ==
    IF strip(s) = <<>> THEN None
    ELSE int_or_None(strip(before_slash(strip(s))))

\* _parse_rank_text: None for an empty text, else the integer before the
\* "/" with its commas removed
parse_rank_text(s) ==
    IF strip(s) = <<>> THEN None
    ELSE int_or_None(strip(SelectSeq(before_slash(strip(s)), LAMBDA ch : ch # ",")))

\* the valuations of a coerced table as numbers, NaN as NA
numeric_values(d) ==
    [i \in DOMAIN d |->
       [d[i] EXCEPT !.price =
          [y \in DOMAIN d[i].price |->
             IF to_numeric(d[i].price[y]).t = "num" THEN to_numeric(d[i].price[y]).v
             ELSE NA]]]

\* df_num = _coerce_numeric(df, year_cols_all)
df_num_of(rows) == numeric_values(coerce_numeric(rows, detect_year_cols(rows)))

\* year_cols: the detected columns with data, 2016 onwards
year_cols_with_data(rows) ==
    SelectSeq(filter_year_cols_with_data(df_num_of(rows), detect_year_cols(rows)),
              LAMBDA y : y >= YEAR_2016)

\* ------------------------------------------------------------- price series
\* r.get(y, pd.NA): the valuation of row r in year y, missing when the table
\* has no such column
row_get(r, y) == IF y \in DOMAIN r.price THEN r.price[y] ELSE NA

\* build_price_series appending 0 for a year without a valuation
build_price_series_zero_fill(d, year_cols, zone, complex_name, dong, ho) ==
    LET row == PickIdx(d, zone, complex_name, dong, ho)
    IN IF row = {} THEN [kind |-> "series", years |-> <<>>, prices |-> <<>>]
       ELSE [kind |-> "series",
             years |-> year_cols,
             prices |-> [n \in DOMAIN year_cols |->
                           IF row_get(d[First(row)], year_cols[n]) = NA THEN 0
                           ELSE row_get(d[First(row)], year_cols[n])]]

\* build_price_series: the years of year_cols in which the first row matching
\* the key has a valuation, and the valuations of those years
build_price_series(d, year_cols, zone, complex_name, dong, ho) ==
    LET row == PickIdx(d, zone, complex_name, dong, ho)
    IN IF row = {} THEN [kind |-> "series", years |-> <<>>, prices |-> <<>>]
       ELSE LET years == SelectSeq(year_cols,
                                   LAMBDA y : row_get(d[First(row)], y) # NA)
            IN [kind |-> "series",
                years |-> years,
                prices |-> [n \in DOMAIN years |-> row_get(d[First(row)], years[n])]]

\* ------------------------------------------------- three-unit rank comparison
\* ranks_by_year[y].at[ridx]: the global rank of row ridx in year y
ranks_by_year(d, y, ridx) == rank_min(d, Idx(d), y, ridx)

\* unit_series: for each of the three units the years of year_cols_sorted in
\* which it has a rank, ascending, with its ranks in those years
unit_series(d, year_cols_sorted, units) ==
    [k \in DOMAIN units |->
       LET yrs == SetToSortedSeq({y \in Range(year_cols_sorted) :
                                    ranks_by_year(d, y, units[k]) # NA})
       IN [years |-> yrs,
           ranks |-> [n \in DOMAIN yrs |-> ranks_by_year(d, yrs[n], units[k])]]]

\* df_long: one row per year and unit that has a rank in that year, with
\* score = total_n - rank + 1
df_long(d, year_cols_sorted, units) ==
    {[year |-> y, label |-> k, rank |-> ranks_by_year(d, y, units[k]),
      score |-> Len(d) - ranks_by_year(d, y, units[k]) + 1] :
        <<y, k>> \in {p \in Range(year_cols_sorted) \X DOMAIN units :
                         ranks_by_year(d, p[1], units[p[2]]) # NA}}

\* _bar_for_year: the rows of df_long of year yy reindexed by the three
\* labels; a label without a row gets rank NaN and score fillna(0.0)
bar_for_year(rows, labels, yy) ==
    [k \in labels |->
       LET mine == {r \in rows : r.year = yy /\ r.label = k}
       IN IF mine = {} THEN [score |-> 0, rank |-> NA]
          ELSE LET r == CHOOSE r \in mine : TRUE
               IN [score |-> r.score, rank |-> r.rank]]

\* the comparison chart of three units: the per-unit series and, unless
\* df_long is empty, one frame of bars for every year of years_int
rank_race(d, year_cols, units) ==
    LET year_cols_sorted == SetToSortedSeq(Range(year_cols))
        rows == df_long(d, year_cols_sorted, units)
    IN IF rows = {} THEN [kind |-> "warning"]
       ELSE [kind |-> "race",
             unit_series |-> unit_series(d, year_cols_sorted, units),
             years_int |-> year_cols_sorted,
             frames |-> [yy \in Range(year_cols_sorted) |->
                           bar_for_year(rows, DOMAIN units, yy)]]

\* ------------------------------------------------------- frames and copies
\* A frame a query works on: its rows, and whether it is df_num itself.
\* frame_alias is a frame taken without .copy().
frame_alias(d) == [shared |-> TRUE, rows |-> d]

\* df_num.copy(), df_num[mask].copy(): a frame of its own
frame_copy(d) == [shared |-> FALSE, rows |-> d]

\* cand["p2016"] = ..., cand["diff"] = ...: a derived column written to a frame
set_column(frame) ==
    [frame EXCEPT !.rows = [i \in DOMAIN @ |-> [derived |-> TRUE] @@ @[i]]]

\* df_num once the query has written to the frame
df_num_after(d, frame) == IF frame.shared THEN frame.rows ELSE d

\* the rows outside base_zone
outside_zone(d, base_zone) == SelectSeq(d, LAMBDA r : r.zone # base_zone)

\* compute_rank_tables: zone_df and all_df are copies and nothing is written
\* to them
compute_rank_tables_df_after(d, zone) ==
    df_num_after(d, frame_copy(d))

\* find_closest_by_2016: past its early returns the derived columns are
\* written to cand, a copy of the rows outside base_zone
find_closest_by_2016_df_after(d, base_zone, base_key, year2016) ==
    IF year2016 \notin Columns(d) THEN d
    ELSE LET base_row == PickIdx(d, base_key[1], base_key[2], base_key[3], base_key[4])
         IN IF base_row = {} THEN d
            ELSE IF d[First(base_row)].price[year2016] = NA THEN d
            ELSE df_num_after(d, set_column(frame_copy(outside_zone(d, base_zone))))

\* find_candidates_by_2016_with_rank_inversion: past its early returns the
\* derived columns are written to cand, a copy of the rows of all_df outside
\* base_zone
find_candidates_df_after(d, base_zone, base_key, year2016, last_year) ==
    IF year2016 \notin Columns(d) \/ last_year \notin Columns(d) THEN d
    ELSE LET base_row == PickIdx(d, base_key[1], base_key[2], base_key[3], base_key[4])
         IN IF base_row = {} THEN d
            ELSE IF \/ d[First(base_row)].price[year2016] = NA
                    \/ d[First(base_row)].price[last_year] = NA THEN d
            ELSE df_num_after(d, set_column(frame_copy(outside_zone(d, base_zone))))

\* no request made yet, nothing returned yet
NoCall == [op |-> "none"]
NoRet == [kind |-> "none"]

\* ------------------------------------------------------------- script run
\* widget values of a selection that has not been made
NoneZone == "None"
NonePair == <<>>
NoneHo == 0

\* what append_lookup_log can do: return at once without a log sheet id,
\* append the row, or raise (no permission, no worksheet, network)
LogOutcomes == {"skipped", "appended", "raises"}

\* the call of append_lookup_log without the try/except around it
log_lookup_unguarded(log) ==
    [aborted |-> log = "raises", log_warning |-> FALSE]

\* try: append_lookup_log(...) except Exception: st.warning(...)
log_lookup(log) ==
    [aborted |-> FALSE, log_warning |-> log = "raises"]

\* the page a run of the script ends with
Page(stage, error, confirmed, warnings, tables) ==
    [kind |-> "page", stage |-> stage, error |-> error, confirmed |-> confirmed,
     warnings |-> warnings, tables |-> tables]

NoError == [msg |-> "none"]

\* if confirmed_click: ... ; the value of session_state["confirmed"] and the
\* warnings after the confirm block
confirm_block(zone, dong_pair, ho, confirmed, confirmed_click, log) ==
    IF ~confirmed_click
    THEN [confirmed |-> confirmed, warnings |-> {}, aborted |-> FALSE]
    ELSE IF zone = NoneZone \/ dong_pair = NonePair \/ ho = NoneHo
    THEN [confirmed |-> FALSE, warnings |-> {"select_all"}, aborted |-> FALSE]
    ELSE [confirmed |-> TRUE,
          warnings |-> IF log_lookup(log).log_warning THEN {"log_failed"} ELSE {},
          aborted |-> log_lookup(log).aborted]

\* the result stage: compute_rank_tables for the selection, st.error and
\* st.stop() when it raises
result_stage(d, year_cols, zone, dong_pair, ho, warnings) ==
    LET tables == compute_rank_tables(d, year_cols, zone, dong_pair[1], dong_pair[2], ho)
    IN IF tables.kind # "tables"
       THEN Page("stopped", [msg |-> "rank_failed"], TRUE, warnings, NoRet)
       ELSE Page("result", NoError, TRUE, warnings, tables)

\* the script from the widgets on, given df_num and year_cols; lines
\* 1525-1527 index dong_pair and call int(ho) outside any try, so a missing
\* selection in a confirmed session ends the run with a TypeError
selection_stage(d, year_cols, zone, dong_pair, ho, cb) ==
    IF cb.aborted THEN Page("exception", NoError, cb.confirmed, cb.warnings, NoRet)
    ELSE IF ~cb.confirmed THEN Page("waiting", NoError, FALSE, cb.warnings, NoRet)
    ELSE IF zone = NoneZone \/ dong_pair = NonePair \/ ho = NoneHo
    THEN Page("exception", [msg |-> "TypeError"], TRUE, cb.warnings, NoRet)
    ELSE result_stage(d, year_cols, zone, dong_pair, ho, cb.warnings)

\* one run of the script on the sheet loaded: cleaning, year columns, the
\* confirm block and the result stage
script_run(sheet, zone, dong_pair, ho, confirmed, confirmed_click, log) ==
    LET cleaned == clean_main_df(sheet)
    IN IF cleaned.kind = "ValueError"
       THEN Page("stopped", [msg |-> "clean_failed", missing |-> cleaned.missing,
                             columns |-> cleaned.columns], confirmed, {}, NoRet)
       ELSE IF year_cols_with_data(cleaned.rows) = <<>>
       THEN Page("stopped", [msg |-> "no_year_data"], confirmed, {}, NoRet)
       ELSE selection_stage(df_num_of(cleaned.rows), year_cols_with_data(cleaned.rows),
                            zone, dong_pair, ho,
                            confirm_block(zone, dong_pair, ho, confirmed,
                                          confirmed_click, log))

\* ------------------------------------------------------------------ actions

\* Tables of the ranking specification: both year columns; the units are
\* numbered by row (ho = row number), so keys are unique; the latest-year
\* valuation is either missing or present.
RankRows ==
    [zone : Zones, complex : Complexes, dong : Dongs,
     p2016 : PriceOrNA, plast : {NA, 0}]

RankTable(t) ==
    [i \in DOMAIN t |->
       [zone |-> t[i].zone, complex |-> t[i].complex, dong |-> t[i].dong,
        ho |-> i,
        price |-> [y \in {YEAR_2016, YEAR_LAST} |->
                     IF y = YEAR_2016 THEN t[i].p2016 ELSE t[i].plast]]]

InitRank ==
    /\ \E n \in 1 .. MaxRows : \E t \in [1 .. n -> RankRows] : df = RankTable(t)
    /\ call = NoCall
    /\ ret = NoRet

\* the result stage: compute_rank_tables for the confirmed selection
ComputeRankTables ==
    /\ call = NoCall
    /\ \E zone \in Zones, complex_name \in Complexes, dong \in Dongs,
          ho \in 1 .. MaxRows :
         /\ call' = [op |-> "compute_rank_tables", zone |-> zone,
                     complex |-> complex_name, dong |-> dong, ho |-> ho]
         /\ ret' = compute_rank_tables(df, year_cols_of(df), zone, complex_name, dong, ho)
    /\ UNCHANGED df

NextRank == ComputeRankTables

SpecRank == InitRank /\ [][NextRank]_vars
\* Tables of the simple comparable search: the base-year column only; zone,
\* unit number and valuation of every row are free, so keys may repeat and
\* need not be in order.
SimpleRows ==
    [zone : Zones, complex : Complexes, dong : Dongs, ho : Hos,
     price : [{YEAR_2016} -> PriceOrNA]]

InitSimple ==
    /\ \E n \in 1 .. MaxRows : df \in [1 .. n -> SimpleRows]
    /\ call = NoCall
    /\ ret = NoRet

FindClosest ==
    /\ call = NoCall
    /\ \E base_zone \in Zones, zone \in Zones, complex_name \in Complexes,
          dong \in Dongs, ho \in Hos, year2016 \in {YEAR_2016, YearAbsent} :
         /\ call' = [op |-> "find_closest_by_2016", base_zone |-> base_zone,
                     base_key |-> <<zone, complex_name, dong, ho>>,
                     year2016 |-> year2016]
         /\ ret' = find_closest_by_2016(df, base_zone,
                                        <<zone, complex_name, dong, ho>>, year2016)
    /\ UNCHANGED df

NextSimple == FindClosest

SpecSimple == InitSimple /\ [][NextSimple]_vars

\* Tables of the inversion search: units numbered by row, zones laid out by
\* row (Z1, Z2, Z2, Z1, ...), every pair of valuations, and rows that miss
\* one of the two years; a table has both year columns or only one of them.
\* Ranks that move by three places need one more unit and one more valuation
\* level: the deep tables have MaxRows + 1 units, base-year valuations
\* 1, 3, 0, 0, ... by row and any latest-year valuation of DeepPrices.
InvZoneAt(i) == IF i % 3 = 1 THEN "Z1" ELSE "Z2"

InvCells ==
    (Prices \X Prices) \cup {<<NA, 0>>, <<0, NA>>}

InvTable(t, cols) ==
    [i \in DOMAIN t |->
       [zone |-> InvZoneAt(i), complex |-> "H", dong |-> 1, ho |-> i,
        price |-> [y \in cols |-> IF y = YEAR_2016 THEN t[i][1] ELSE t[i][2]]]]

DeepPrices == {0, 1, 2, 3}

InvDeepBaseAt(i) == CASE i = 1 -> 1 [] i = 2 -> 3 [] OTHER -> 0

InitInv ==
    /\ \/ \E n \in 1 .. MaxRows :
             \/ \E t \in [1 .. n -> InvCells] :
                   df = InvTable(t, {YEAR_2016, YEAR_LAST})
             \/ \E t \in [1 .. n -> {<<0, 0>>}], y \in {YEAR_2016, YEAR_LAST} :
                   df = InvTable(t, {y})
       \/ \E last \in [1 .. MaxRows + 1 -> DeepPrices] :
             df = InvTable([i \in 1 .. MaxRows + 1 |-> <<InvDeepBaseAt(i), last[i]>>],
                           {YEAR_2016, YEAR_LAST})
    /\ call = NoCall
    /\ ret = NoRet

\* search_breadth arguments
TopNs == {0, 1, 2}

\* the keys asked for: the units of the table and one unit that is not in it
InvKeys(d) ==
    {<<d[i].zone, d[i].complex, d[i].dong, d[i].ho>> : i \in Idx(d)}
        \cup {<<"Z1", "H", 1, MaxRows + 2>>}

FindClosestInversion ==
    /\ call = NoCall
    /\ \E base_zone \in Zones, base_key \in InvKeys(df), top_n_closest \in TopNs :
         /\ call' = [op |-> "find_closest_by_2016_with_rank_inversion",
                     base_zone |-> base_zone, base_key |-> base_key,
                     year2016 |-> YEAR_2016, last_year |-> YEAR_LAST,
                     top_n_closest |-> top_n_closest]
         /\ ret' = find_closest_by_2016_with_rank_inversion(
                       df, base_zone, base_key, YEAR_2016, YEAR_LAST, top_n_closest)
    /\ UNCHANGED df

NextInv == FindClosestInversion

SpecInv == InitInv /\ [][NextInv]_vars

\* Tables of the three-unit comparison: those of the inversion search with
\* both year columns. The three units compared are rows of the table.
InitRace ==
    /\ \E n \in 1 .. MaxRows : \E t \in [1 .. n -> InvCells] :
          df = InvTable(t, {YEAR_2016, YEAR_LAST})
    /\ call = NoCall
    /\ ret = NoRet

RankRace ==
    /\ call = NoCall
    /\ year_cols_of(df) # <<>>
    /\ \E units \in [1 .. 3 -> Idx(df)] :
         /\ call' = [op |-> "rank_race", units |-> units]
         /\ ret' = rank_race(df, year_cols_of(df), units)
    /\ UNCHANGED df

NextRace == RankRace

SpecRace == InitRace /\ [][NextRace]_vars

\* Tables of the price series: two year columns, the unit number of every
\* row free, so that a key may match several rows; base-year valuations
\* differ from latest-year valuations.
SeriesRows == [ho : Hos, p2016 : {NA, 1, 2}, plast : {NA, 0}]

SeriesTable(t) ==
    [i \in DOMAIN t |->
       [zone |-> "Z1", complex |-> "H", dong |-> 1, ho |-> t[i].ho,
        price |-> [y \in {YEAR_2016, YEAR_LAST} |->
                     IF y = YEAR_2016 THEN t[i].p2016 ELSE t[i].plast]]]

InitSeries ==
    /\ \E n \in 1 .. MaxRows : \E t \in [1 .. n -> SeriesRows] : df = SeriesTable(t)
    /\ call = NoCall
    /\ ret = NoRet

\* the year lists asked for: ascending, possibly with a year that is not a
\* column of the table
SeriesYearLists ==
    {SetToSortedSeq(S) : S \in SUBSET {YearAbsent, YEAR_2016, YEAR_LAST}}

BuildPriceSeries ==
    /\ call = NoCall
    /\ \E year_cols \in SeriesYearLists, ho \in Hos \cup {0} :
         /\ call' = [op |-> "build_price_series", year_cols |-> year_cols,
                     zone |-> "Z1", complex_name |-> "H", dong |-> 1, ho |-> ho]
         /\ ret' = build_price_series(df, year_cols, "Z1", "H", 1, ho)
    /\ UNCHANGED df

NextSeries == BuildPriceSeries

SpecSeries == InitSeries /\ [][NextSeries]_vars

\* Sheets for the coercion: rows of raw cells in two year columns; the
\* base-year cell is any cell, the latest-year cell a text or empty.
CoerceCells2016 == {NumCell(0), NumCell(1), StrCell("1"), StrCell("x"), NaCell}
CoerceCellsLast == {StrCell("2"), NaCell}

CoerceTable(t) ==
    [i \in DOMAIN t |->
       [zone |-> "Z1", complex |-> "H", dong |-> 1, ho |-> i,
        price |-> [y \in {YEAR_2016, YEAR_LAST} |->
                     IF y = YEAR_2016 THEN t[i][1] ELSE t[i][2]]]]

InitCoerce ==
    /\ \E n \in 1 .. MaxRows :
          \E t \in [1 .. n -> CoerceCells2016 \X CoerceCellsLast] : df = CoerceTable(t)
    /\ call = NoCall
    /\ ret = NoRet

CoerceNumeric ==
    /\ call = NoCall
    /\ \E cols \in SeriesYearLists :
         /\ call' = [op |-> "_coerce_numeric", cols |-> cols]
         /\ ret' = [kind |-> "table", df |-> coerce_numeric(df, cols)]
    /\ UNCHANGED df

NextCoerce == CoerceNumeric

SpecCoerce == InitCoerce /\ [][NextCoerce]_vars

\* Queries on one table, one after another: the table given to each query is
\* the table the query before it left.
QueryCells == {<<0, 1>>, <<1, 0>>, <<NA, 0>>}

InitQueries ==
    /\ \E n \in 1 .. MaxRows : \E t \in [1 .. n -> QueryCells] :
          df = InvTable(t, {YEAR_2016, YEAR_LAST})
    /\ call = NoCall
    /\ ret = NoRet

QueryRankTables ==
    \E zone \in Zones, ho \in 1 .. MaxRows :
        /\ call' = [op |-> "compute_rank_tables", zone |-> zone,
                    complex_name |-> "H", dong |-> 1, ho |-> ho]
        /\ ret' = compute_rank_tables(df, year_cols_of(df), zone, "H", 1, ho)
        /\ df' = compute_rank_tables_df_after(df, zone)

QueryClosest ==
    \E base_zone \in Zones, base_key \in InvKeys(df) :
        /\ call' = [op |-> "find_closest_by_2016", base_zone |-> base_zone,
                    base_key |-> base_key, year2016 |-> YEAR_2016]
        /\ ret' = find_closest_by_2016(df, base_zone, base_key, YEAR_2016)
        /\ df' = find_closest_by_2016_df_after(df, base_zone, base_key, YEAR_2016)

QueryClosestInversion ==
    \E base_zone \in Zones, base_key \in InvKeys(df), top_n_closest \in {1, 2} :
        /\ call' = [op |-> "find_closest_by_2016_with_rank_inversion",
                    base_zone |-> base_zone, base_key |-> base_key,
                    year2016 |-> YEAR_2016, last_year |-> YEAR_LAST,
                    top_n_closest |-> top_n_closest]
        /\ ret' = find_closest_by_2016_with_rank_inversion(
                      df, base_zone, base_key, YEAR_2016, YEAR_LAST, top_n_closest)
        /\ df' = find_candidates_df_after(df, base_zone, base_key, YEAR_2016, YEAR_LAST)

QueryPriceSeries ==
    \E key \in InvKeys(df) :
        /\ call' = [op |-> "build_price_series", year_cols |-> year_cols_of(df),
                    zone |-> key[1], complex_name |-> key[2], dong |-> key[3],
                    ho |-> key[4]]
        /\ ret' = build_price_series(df, year_cols_of(df), key[1], key[2], key[3], key[4])
        /\ df' = df

NextQueries ==
    \/ QueryRankTables
    \/ QueryClosest
    \/ QueryClosestInversion
    \/ QueryPriceSeries

SpecQueries == InitQueries /\ [][NextQueries]_vars

\* Sheets of the script: the identifying columns all present or some of them
\* absent; no other column, a column that is not a year (99), a year before
\* 2016, the base year, or the base year and the latest year. A row has zone
\* Z1, Z2 or the text "nan", a unit number (its row number) or none, and a
\* number or an empty cell in its first other column.
PageYearSets == {{}, {99}, {YearAbsent}, {YEAR_2016}, {YEAR_2016, YEAR_LAST}}
PageRowKinds == {<<"Z1", TRUE>>, <<"Z2", TRUE>>, <<"nan", TRUE>>, <<"Z1", FALSE>>}
PageCells == {NumCell(0), NaCell}

SheetRows(t, Y) ==
    [i \in DOMAIN t |->
       [zone |-> t[i][1][1], complex |-> "H", dong |-> 1,
        ho |-> IF t[i][1][2] THEN i ELSE NA,
        price |-> [y \in Y |-> IF y = YEAR_LAST THEN StrCell("1") ELSE t[i][2]]]]

InitPage ==
    /\ \/ \E Y \in PageYearSets, n \in 1 .. MaxRows :
             \E t \in [1 .. n -> PageRowKinds \X PageCells] :
                df = [required |-> Range(required), rows |-> SheetRows(t, Y)]
       \/ \E present \in (SUBSET Range(required)) \ {Range(required)} :
             df = [required |-> present,
                   rows |-> SheetRows(<<<<<<"Z1", TRUE>>, NumCell(0)>>>>, {YEAR_2016})]
    /\ call = NoCall
    /\ ret = NoRet

\* the session: the widget values of the last run and session_state["confirmed"]
SessionZone == IF call.op = "run" THEN call.zone ELSE NoneZone
SessionPair == IF call.op = "run" THEN call.dong_pair ELSE NonePair
SessionHo == IF call.op = "run" THEN call.ho ELSE NoneHo
SessionConfirmed == IF ret.kind = "page" THEN ret.confirmed ELSE FALSE

\* the last run got as far as the widgets
WidgetsShown == ret.kind = "page" /\ ret.stage \in {"waiting", "result", "exception"}

\* the options of the three select boxes
ZoneOptions == {r.zone : r \in Range(clean_main_df(df).rows)}
DongPairOptions(zone) ==
    {<<r.complex, r.dong>> : r \in {q \in Range(clean_main_df(df).rows) : q.zone = zone}}
HoOptions(zone, dong_pair) ==
    {r.ho : r \in {q \in Range(clean_main_df(df).rows) :
                      q.zone = zone /\ <<q.complex, q.dong>> = dong_pair}}

\* a run of the script with the given widget values
Run(zone, dong_pair, ho, confirmed, confirmed_click, log) ==
    /\ call' = [op |-> "run", zone |-> zone, dong_pair |-> dong_pair, ho |-> ho,
                confirmed_click |-> confirmed_click, log |-> log]
    /\ ret' = script_run(df, zone, dong_pair, ho, confirmed, confirmed_click, log)
    /\ UNCHANGED df

\* the first run, when the page is opened
OpenPage ==
    /\ call = NoCall
    /\ Run(NoneZone, NonePair, NoneHo, FALSE, FALSE, "none")

\* a zone is chosen or the zone box is cleared: reset_after_zone, then the
\* script
SelectZone ==
    /\ WidgetsShown
    /\ \E zone \in (ZoneOptions \cup {NoneZone}) \ {SessionZone} :
          Run(zone, NonePair, NoneHo, FALSE, FALSE, "none")

\* a building is chosen or the box is cleared: reset_after_dong, then the
\* script
SelectDong ==
    /\ WidgetsShown
    /\ SessionZone # NoneZone
    /\ \E dong_pair \in (DongPairOptions(SessionZone) \cup {NonePair}) \ {SessionPair} :
          Run(SessionZone, dong_pair, NoneHo, FALSE, FALSE, "none")

\* a unit is chosen or the box is cleared: the ho selectbox has no on_change,
\* the script runs with session_state["confirmed"] as it is
SelectHo ==
    /\ WidgetsShown
    /\ SessionPair # NonePair
    /\ \E ho \in (HoOptions(SessionZone, SessionPair) \cup {NoneHo}) \ {SessionHo} :
          Run(SessionZone, SessionPair, ho, SessionConfirmed, FALSE, "none")

\* the confirm button is clicked
ClickConfirm ==
    /\ WidgetsShown
    /\ \E log \in LogOutcomes :
          Run(SessionZone, SessionPair, SessionHo, SessionConfirmed, TRUE, log)

NextPage ==
    \/ OpenPage
    \/ SelectZone
    \/ SelectDong
    \/ SelectHo
    \/ ClickConfirm

SpecPage == InitPage /\ [][NextPage]_vars

\* Headers for the year detection: up to MaxCols distinct column names as the
\* sheet has them, normalized by _normalize_columns when the sheet is loaded.
HeaderTexts ==
    { <<"2", "0", "1", "6">>, <<"2", "0", "2", "5">>, <<" ", "2", "0", "1", "6">>,
      <<"2", "0", "1", "6", ".", "0">>, <<"2", "0", "1", "6", ".", "5">>,
      <<"0", "2", "0", "1", "6">>, <<"+", "2", "0", "2", "5">>,
      <<"-", "2", "0", "1", "6">>, <<"2", "1", "6">>, <<"2", "0", "1", "6", "0">>,
      <<"2", "0", "1", "6", ".">>, <<"h", "o">>, <<"2", "0", "1", "x">> }

Headers ==
    {h \in UNION {[1 .. n -> HeaderTexts] : n \in 1 .. MaxCols} :
        \A j, k \in DOMAIN h : j # k => strip(h[j]) # strip(h[k])}

InitDetect ==
    /\ \E header \in Headers : df = [columns |-> normalize_columns(header)]
    /\ call = NoCall
    /\ ret = NoRet

\* year_cols_all = _detect_year_cols(df), then the lookups of lines 1290-1291
DetectYearCols ==
    /\ call = NoCall
    /\ call' = [op |-> "_detect_year_cols"]
    /\ ret' = [kind |-> "year_cols",
               year_cols |-> detect_year_cols_of_names(df.columns),
               lookups |-> year_lookups(df.columns,
                                        detect_year_cols_of_names(df.columns))]
    /\ UNCHANGED df

NextDetect == DetectYearCols

SpecDetect == InitDetect /\ [][NextDetect]_vars

\* Sheets for the cleaning: the four identifying columns are present; a row
\* is the row Z1, H, 1, 2 with one of its cells replaced: a zone of another
\* spelling, the text nan in some letter case, a text that is no number, a
\* fractional number, an empty cell, a blank or two blanks.
ZoneTexts ==
    { <<"Z", "1">>, <<"n", "a", "n">>, <<"N", "a", "N">>, <<" ", "n", "a", "n">>,
      <<>>, <<" ">>, <<" ", " ">> }
ComplexTexts == { <<"H">>, <<"N", "A", "N">>, <<>> }
DongTexts == { <<"1">>, <<"x">>, <<>> }
HoTexts == { <<"2">>, <<"1", ".", "5">>, <<>> }

CleanRowTexts ==
    {<<z, <<"H">>, <<"1">>, <<"2">> >> : z \in ZoneTexts}
      \cup {<< <<"Z", "1">>, c, <<"1">>, <<"2">> >> : c \in ComplexTexts}
      \cup {<< <<"Z", "1">>, <<"H">>, d, <<"2">> >> : d \in DongTexts}
      \cup {<< <<"Z", "1">>, <<"H">>, <<"1">>, h>> : h \in HoTexts}

RawRow(t) ==
    [zone |-> normalize_cell(t[1]), complex |-> normalize_cell(t[2]),
     dong |-> normalize_cell(t[3]), ho |-> normalize_cell(t[4])]

InitClean ==
    /\ \E n \in 1 .. MaxCleanRows : \E t \in [1 .. n -> CleanRowTexts] :
          df = [rows |-> [i \in 1 .. n |-> RawRow(t[i])]]
    /\ call = NoCall
    /\ ret = NoRet

\* df = _clean_main_df(df_raw) under either build
CleanMainDf ==
    /\ call = NoCall
    /\ \E dtype \in TextDtypes :
         /\ call' = [op |-> "_clean_main_df", dtype |-> dtype]
         /\ ret' = clean_rows(df.rows, dtype)
    /\ UNCHANGED df

NextClean == CleanMainDf

SpecClean == InitClean /\ [][NextClean]_vars

\* A year column as loaded, for the parsing of its cells: plain numerals,
\* comma-grouped numerals, numerals between blanks, a text that is no
\* numeral and the empty cell.
ValuationTexts ==
    { <<"0">>, <<"1", "2">>, <<" ", "1", "2", " ">>, <<"1", "2", "3", "4">>,
      <<"1", ",", "2", "3", "4">>, <<" ", "1", ",", "2", "3", "4", ".", "5", " ">>,
      <<"1", "2", "3", "4", ".", "5">>, <<"x">>, <<>> }

InitParse ==
    /\ \E n \in 1 .. MaxCleanRows : \E t \in [1 .. n -> ValuationTexts] :
          df = [i \in 1 .. n |-> normalize_cell(t[i])]
    /\ call = NoCall
    /\ ret = NoRet

\* df[c] = pd.to_numeric(df[c], errors="coerce") for one year column
CoerceYearColumn ==
    /\ call = NoCall
    /\ call' = [op |-> "to_numeric"]
    /\ ret' = [i \in DOMAIN df |-> to_numeric_text(df[i])]
    /\ UNCHANGED df

NextParse == CoerceYearColumn

SpecParse == InitParse /\ [][NextParse]_vars

\* Sheets with zero and missing valuations: zones laid out by row, the unit
\* number the row number; a base-year cell is "0", "1", a text that is no
\* number or empty, a latest-year cell "0" or empty. The script coerces the
\* sheet (lines 1289-1293) and serves the queries on df_num.
ZeroCells2016 == {StrCell("0"), StrCell("1"), StrCell("x"), NaCell}
ZeroCellsLast == {StrCell("0"), NaCell}

ZeroTable(t) ==
    [i \in DOMAIN t |->
       [zone |-> InvZoneAt(i), complex |-> "H", dong |-> 1, ho |-> i,
        price |-> [y \in {YEAR_2016, YEAR_LAST} |->
                     IF y = YEAR_2016 THEN t[i][1] ELSE t[i][2]]]]

InitZero ==
    /\ \E n \in 1 .. MaxRows :
          \E t \in [1 .. n -> ZeroCells2016 \X ZeroCellsLast] : df = ZeroTable(t)
    /\ call = NoCall
    /\ ret = NoRet

ZeroRankTables ==
    /\ call = NoCall
    /\ year_cols_with_data(df) # <<>>
    /\ \E i \in Idx(df) :
         /\ call' = [op |-> "compute_rank_tables", zone |-> df[i].zone,
                     complex_name |-> "H", dong |-> 1, ho |-> i]
         /\ ret' = compute_rank_tables(df_num_of(df), year_cols_with_data(df),
                                       df[i].zone, "H", 1, i)
    /\ UNCHANGED df

ZeroClosest ==
    /\ call = NoCall
    /\ year_cols_with_data(df) # <<>>
    /\ \E i \in Idx(df) :
         /\ call' = [op |-> "find_closest_by_2016", base_zone |-> df[i].zone,
                     base_key |-> <<df[i].zone, "H", 1, i>>, year2016 |-> YEAR_2016]
         /\ ret' = find_closest_by_2016(df_num_of(df), df[i].zone,
                                        <<df[i].zone, "H", 1, i>>, YEAR_2016)
    /\ UNCHANGED df

ZeroPriceSeries ==
    /\ call = NoCall
    /\ year_cols_with_data(df) # <<>>
    /\ \E i \in Idx(df) :
         /\ call' = [op |-> "build_price_series", zone |-> df[i].zone,
                     complex_name |-> "H", dong |-> 1, ho |-> i]
         /\ ret' = build_price_series(df_num_of(df), year_cols_with_data(df),
                                      df[i].zone, "H", 1, i)
    /\ UNCHANGED df

NextZero ==
    \/ ZeroRankTables
    \/ ZeroClosest
    \/ ZeroPriceSeries

SpecZero == InitZero /\ [][NextZero]_vars

\* Cleaned sheets for the year set: one or two columns besides the
\* identifying ones, named 99 (no year), 2015, 2016 or 2025; a cell is a
\* numeral, a text that is no number or empty.
YearSetColumns ==
    {Y \in SUBSET {99, YearAbsent, YEAR_2016, YEAR_LAST} : Cardinality(Y) \in {1, 2}}
YearSetCells == {StrCell("1"), StrCell("x"), NaCell}

YearSetTable(t, Y) ==
    [i \in DOMAIN t |->
       [zone |-> "Z1", complex |-> "H", dong |-> 1, ho |-> i,
        price |-> [y \in Y |-> IF y = First(Y) THEN t[i][1] ELSE t[i][2]]]]

InitYears ==
    /\ \E Y \in YearSetColumns, n \in 1 .. MaxRows :
          \E t \in [1 .. n -> YearSetCells \X YearSetCells] :
             /\ Cardinality(Y) = 1 => \A i \in 1 .. n : t[i][2] = NaCell
             /\ df = YearSetTable(t, Y)
    /\ call = NoCall
    /\ ret = NoRet

\* lines 1289-1293: year_cols_all, df_num, year_cols
YearCols ==
    /\ call = NoCall
    /\ call' = [op |-> "year_cols"]
    /\ ret' = [kind |-> "year_cols", year_cols_all |-> detect_year_cols(df),
               year_cols |-> year_cols_with_data(df)]
    /\ UNCHANGED df

NextYears == YearCols

SpecYears == InitYears /\ [][NextYears]_vars

\* Sheets as ws.get_all_values() returns them, four cells wide: some title
\* rows (none, one, or as many as put the next row just inside or just
\* outside the rows scanned), then up to MaxTailRows rows, each a header row
\* (plain, with blanks around the names, or with address for zone), a header
\* row that lacks one name, or a data row.
TitleRow == << <<"t">>, <<>>, <<>>, <<>> >>

TailRows ==
    { <<T_zone, T_complex, T_dong, T_ho>>,
      << <<" ">> \o T_zone, T_complex, T_dong, T_ho \o <<" ">> >>,
      <<T_address, T_complex, T_dong, T_ho>>,
      <<T_zone, T_complex, T_dong, <<>> >>,
      << <<"Z", "1">>, <<"H">>, <<"1">>, <<"2">> >> }

TitleRowCounts == {0, 1, HEADER_SCAN_ROWS - 1, HEADER_SCAN_ROWS}

InitLoad ==
    /\ \E k \in TitleRowCounts, n \in 1 .. MaxTailRows : \E tail \in [1 .. n -> TailRows] :
          df = [values |-> [i \in 1 .. k |-> TitleRow] \o tail]
    /\ call = NoCall
    /\ ret = NoRet

\* df_raw = load_from_gsheet(...), from values = ws.get_all_values() on
LoadFromGsheet ==
    /\ call = NoCall
    /\ call' = [op |-> "load_from_gsheet"]
    /\ ret' = load_from_gsheet(df.values)
    /\ UNCHANGED df

NextLoad == LoadFromGsheet

SpecLoad == InitLoad /\ [][NextLoad]_vars

\* Ranks and pool sizes for the rank text: missing, below and from 1000 on,
\* up to two commas.
RankValues == {NA, 1, 12, 999, 1000, 1001, 10337, 123456, 1234567}

InitRankText ==
    /\ \E rank \in RankValues, total \in RankValues : df = [rank |-> rank, total |-> total]
    /\ call = NoCall
    /\ ret = NoRet

\* the rank column of a rank table and its parse for the plot (lines 831-832
\* and 1621, 1628)
FmtParseRank ==
    /\ call = NoCall
    /\ call' = [op |-> "_fmt_rank"]
    /\ ret' = [kind |-> "rank_text", text |-> fmt_rank_text(df.rank, df.total),
               rank |-> parse_rank_text(fmt_rank_text(df.rank, df.total))]
    /\ UNCHANGED df

NextRankText == FmtParseRank

SpecRankText == InitRankText /\ [][NextRankText]_vars

\* ---------------------------------------------------------- claims: ranking
RankCall == call.op = "compute_rank_tables" /\ ret.kind = "tables"

HasYear(t, y) == \E k \in DOMAIN t : t[k].year = y
EntryOf(t, y) == t[CHOOSE k \in DOMAIN t : t[k].year = y]
\* _parse_rank_text: the number left of the "/"
RankOf(t, y) == EntryOf(t, y).rank[1]
TotalOf(t, y) == EntryOf(t, y).rank[2]

\* the row compute_rank_tables picked for the request
TargetRow == First(PickIdx(df, call.zone, call.complex, call.dong, call.ho))

\* the rows of a pool with a valuation in year y
Valued(pool, y) == {i \in pool : df[i].price[y] # NA}

\* the rank the target was given in table t for year y is ordered against the
\* ranks of the valued rows of the pool as their valuations are
Monotone(t, pool, y) ==
    HasYear(t, y) =>
        \A i \in Valued(pool, y) :
            LET e == EntryOf(t, y)
                r == rank_min(df, pool, y, i)
            IN /\ e.price > df[i].price[y] => e.rank[1] <= r
               /\ e.price < df[i].price[y] => e.rank[1] >= r
               /\ e.price = df[i].price[y] => e.rank[1] = r

\* C1: rank monotonicity. In every year and in both scopes, a unit with a
\* larger valuation than another unit of the pool has a rank number that is
\* not larger, and units with equal valuations have equal ranks.
C1_RankMonotone ==
    RankCall =>
        \A y \in Columns(df) :
            /\ Monotone(ret.all_table, Idx(df), y)
            /\ Monotone(ret.zone_table, ZoneIdx(df, call.zone), y)

\* the target is ranked in 2016 below a unit of its zone and level with another
C1_Witness ==
    /\ RankCall
    /\ HasYear(ret.zone_table, YEAR_2016)
    /\ \E i, j \in ZoneIdx(df, call.zone) :
          /\ i # TargetRow /\ j # TargetRow
          /\ df[i].price[YEAR_2016] = df[TargetRow].price[YEAR_2016]
          /\ df[j].price[YEAR_2016] > df[TargetRow].price[YEAR_2016]
          /\ RankOf(ret.zone_table, YEAR_2016) = 2

\* the gap law for the target's rank in one scope: rank 1 for the best
\* valuation, else the rank of the next better tie group plus its size
GapLaw(t, pool, y) ==
    HasYear(t, y) =>
        LET p == EntryOf(t, y).price
            better == {i \in Valued(pool, y) : df[i].price[y] > p}
        IN IF better = {} THEN RankOf(t, y) = 1
           ELSE LET q == CHOOSE v \in {df[i].price[y] : i \in better} :
                            \A i \in better : v <= df[i].price[y]
                    group == {i \in better : df[i].price[y] = q}
                IN \A g \in group :
                     RankOf(t, y) = rank_min(df, pool, y, g) + Cardinality(group)

\* C2: rank gap law (competition ranking). The best valuation of a pool has
\* rank 1, and the units right below a tie group of k units ranked r have
\* rank r + k.
C2_RankGapLaw ==
    RankCall =>
        \A y \in Columns(df) :
            /\ GapLaw(ret.zone_table, ZoneIdx(df, call.zone), y)
            /\ GapLaw(ret.all_table, Idx(df), y)

\* 2016 valuations [2, 2, 1] in one zone: the target, valued 1, has rank 3
C2_Witness ==
    /\ RankCall
    /\ HasYear(ret.zone_table, YEAR_2016)
    /\ RankOf(ret.zone_table, YEAR_2016) = 3
    /\ EntryOf(ret.zone_table, YEAR_2016).price = 1
    /\ \A i \in ZoneIdx(df, call.zone) \ {TargetRow} :
          df[i].price[YEAR_2016] = 2 /\ rank_min(df, ZoneIdx(df, call.zone), YEAR_2016, i) = 1

\* C3: pool exclusion. A row without a valuation in year y gets no rank in
\* year y in either scope and is not counted in the ranks of the others, and
\* the tables hold an entry for year y exactly when the target has a
\* valuation in year y.
C3_PoolExclusion ==
    RankCall =>
        \A y \in Columns(df) :
            /\ HasYear(ret.zone_table, y) <=> df[TargetRow].price[y] # NA
            /\ HasYear(ret.all_table, y) <=> df[TargetRow].price[y] # NA
            /\ HasYear(ret.zone_table, y) =>
                  RankOf(ret.zone_table, y) \in
                      1 .. Cardinality(Valued(ZoneIdx(df, call.zone), y))
            /\ HasYear(ret.all_table, y) =>
                  RankOf(ret.all_table, y) \in 1 .. Cardinality(Valued(Idx(df), y))
            /\ \A i \in Idx(df) : df[i].price[y] = NA =>
                  /\ rank_min(df, Idx(df), y, i) = NA
                  /\ rank_min(df, ZoneIdx(df, df[i].zone), y, i) = NA

\* the target has a 2016 valuation and none in the latest year, a row of its
\* zone has no 2016 valuation, and the target is the last of the valued rows
C3_Witness ==
    /\ RankCall
    /\ HasYear(ret.zone_table, YEAR_2016)
    /\ ~HasYear(ret.zone_table, YEAR_LAST)
    /\ YEAR_LAST \in Columns(df)
    /\ \E i \in ZoneIdx(df, call.zone) : df[i].price[YEAR_2016] = NA
    /\ Cardinality(Valued(ZoneIdx(df, call.zone), YEAR_2016)) = 2
    /\ RankOf(ret.zone_table, YEAR_2016) = 2

\* C4: pool size. The total of every rank entry "rank/total" for year y is
\* the number of rows of the scope's pool with a valuation in year y.
C4_PoolSize ==
    RankCall =>
        \A y \in Columns(df) :
            /\ HasYear(ret.zone_table, y) =>
                  TotalOf(ret.zone_table, y) =
                      Cardinality(Valued(ZoneIdx(df, call.zone), y))
            /\ HasYear(ret.all_table, y) =>
                  TotalOf(ret.all_table, y) = Cardinality(Valued(Idx(df), y))

\* C19: pool-size ordering. In every year of the rank tables of a target, the
\* pool size shown with the zone-local rank is at most the pool size shown
\* with the global rank.
C19_PoolSizeOrdering ==
    RankCall =>
        \A y \in Columns(df) :
            (HasYear(ret.zone_table, y) /\ HasYear(ret.all_table, y)) =>
                TotalOf(ret.zone_table, y) <= TotalOf(ret.all_table, y)

\* a target ranked in a zone of two units within a table that has a unit of
\* another zone
C19_Witness ==
    /\ RankCall
    /\ HasYear(ret.zone_table, YEAR_2016)
    /\ HasYear(ret.all_table, YEAR_2016)
    /\ TotalOf(ret.zone_table, YEAR_2016) = 2
    /\ TotalOf(ret.all_table, YEAR_2016) = 3

\* C27: in every year of the rank tables of a target, the zone-local rank is
\* at most the global rank, and the two tables have the same years.
C27_ZoneRankAtMostGlobal ==
    RankCall =>
        \A y \in Columns(df) :
            /\ HasYear(ret.zone_table, y) <=> HasYear(ret.all_table, y)
            /\ HasYear(ret.zone_table, y) =>
                  RankOf(ret.zone_table, y) <= RankOf(ret.all_table, y)

\* a target that is first in its zone and behind a unit of the other zone
C27_Witness ==
    /\ RankCall
    /\ HasYear(ret.zone_table, YEAR_2016)
    /\ Cardinality(ZoneIdx(df, call.zone)) >= 2
    /\ RankOf(ret.zone_table, YEAR_2016) = 1
    /\ RankOf(ret.all_table, YEAR_2016) = 2

\* C9: rank lookup for an unknown unit. A request whose key matches no row
\* raises, returns no tables, and leaves the table as it was.
C9_UnknownKeyRaises ==
    [][(/\ call'.op = "compute_rank_tables"
        /\ PickIdx(df, call'.zone, call'.complex, call'.dong, call'.ho) = {})
       => (/\ ret' = [kind |-> "ValueError"]
           /\ df' = df)]_vars

\* a lookup that failed on a table in which other units are found
C9_Witness ==
    /\ call.op = "compute_rank_tables"
    /\ ret.kind = "ValueError"
    /\ PickIdx(df, call.zone, call.complex, call.dong, call.ho) = {}
    /\ Len(df) = MaxRows
\* --------------------------------------------------- claims: simple search
SimpleCall == call.op = "find_closest_by_2016"

\* the rows the request names as its target
BaseRows == PickIdx(df, call.base_key[1], call.base_key[2], call.base_key[3],
                    call.base_key[4])

\* the rows outside the zone the search is told to leave out, with a
\* base-year valuation
OutOfZone == {i \in Idx(df) : /\ df[i].zone # call.base_zone
                               /\ call.year2016 \in Columns(df)
                               /\ df[i].price[call.year2016] # NA}

\* C5: comparable exclusivity. Whatever base_zone is passed, the candidate
\* returned is never of the zone of the target unit (the zone in base_key).
C5_CandidateOutsideTargetZone ==
    ret.kind = "dict" => ret.cmp_zone # call.base_key[1]

\* (|base-year difference|, zone, complex, dong, ho) of row i
NearKey(i, base_price) ==
    <<Abs(df[i].price[call.year2016] - base_price), StrOrd(df[i].zone),
      StrOrd(df[i].complex), df[i].dong, df[i].ho>>

\* C6: simple-mode nearest. A returned candidate is a least row, in the order
\* (absolute base-year difference, zone, complex, dong, ho), among the rows
\* outside the zone with a base-year valuation; diff is that absolute
\* difference and is not negative.
C6_SimpleNearest ==
    (SimpleCall /\ ret.kind = "dict") =>
        LET base_price == df[First(BaseRows)].price[call.year2016]
        IN /\ ret.base_price = base_price
           /\ ret.diff = Abs(ret.cmp_price - base_price)
           /\ ret.diff >= 0
           /\ \E b \in OutOfZone :
                 /\ KeyMatch(df[b], ret.cmp_zone, ret.cmp_complex, ret.cmp_dong, ret.cmp_ho)
                 /\ ret.cmp_price = df[b].price[call.year2016]
                 /\ \A j \in OutOfZone :
                       ~LexLess(NearKey(j, base_price), NearKey(b, base_price))

\* two candidates at the same distance from the target, the later row of the
\* table having the smaller key: the later row is returned
C6_Witness ==
    /\ SimpleCall
    /\ ret.kind = "dict"
    /\ ret.diff > 0
    /\ \E i, j \in OutOfZone :
          /\ i < j
          /\ Abs(df[i].price[call.year2016] - ret.base_price) = ret.diff
          /\ Abs(df[j].price[call.year2016] - ret.base_price) = ret.diff
          /\ df[j].ho < df[i].ho
          /\ df[j].zone = df[i].zone
          /\ ret.cmp_ho = df[j].ho

\* C10: simple-mode empty result. The search returns None exactly when the
\* base-year column is absent, the target key matches no row, the target has
\* no base-year valuation, or no row outside the zone has one; otherwise it
\* returns a candidate.
C10_SimpleEmptyExactly ==
    SimpleCall =>
        /\ ret.kind \in {"None", "dict"}
        /\ ret = None <=>
              \/ call.year2016 \notin Columns(df)
              \/ BaseRows = {}
              \/ df[First(BaseRows)].price[call.year2016] = NA
              \/ OutOfZone = {}

\* the target has a base-year valuation, rows outside the zone exist, none of
\* them has a base-year valuation, and the result is empty
C10_Witness ==
    /\ SimpleCall
    /\ ret = None
    /\ call.year2016 \in Columns(df)
    /\ BaseRows # {}
    /\ df[First(BaseRows)].price[call.year2016] # NA
    /\ \E i \in Idx(df) : df[i].zone # call.base_zone
    /\ OutOfZone = {}
\* ------------------------------------------------ claims: inversion search
InvCall == call.op = "find_closest_by_2016_with_rank_inversion"

\* the global competition rank of row i in year y
GlobalRank(i, y) ==
    1 + Cardinality({j \in Idx(df) : df[j].price[y] # NA
                                      /\ df[j].price[y] > df[i].price[y]})

\* the rank differences target - candidate in the two years
DeltaBase(i) == GlobalRank(First(BaseRows), call.year2016) - GlobalRank(i, call.year2016)
DeltaLatest(i) == GlobalRank(First(BaseRows), call.last_year) - GlobalRank(i, call.last_year)

\* the candidate returned is row i of the table
ReturnedRow(i) ==
    /\ KeyMatch(df[i], ret.cmp_zone, ret.cmp_complex, ret.cmp_dong, ret.cmp_ho)
    /\ ret.cmp_price_2016 = df[i].price[call.year2016]
    /\ ret.cmp_price_last = df[i].price[call.last_year]

\* C7: inversion sign flip. In every result of the inversion search the rank
\* differences target - candidate of the base year and of the latest year are
\* both non-zero and of opposite signs, the ranks being the global
\* competition ranks of the two units in those years.
C7_InversionSignFlip ==
    (InvCall /\ ret.kind = "dict") =>
        LET rank_delta_base == ret.base_rank_2016 - ret.cmp_rank_2016
            rank_delta_latest == ret.base_rank_last - ret.cmp_rank_last
        IN /\ rank_delta_base # 0
           /\ rank_delta_latest # 0
           /\ rank_delta_base < 0 <=> rank_delta_latest > 0
           /\ ret.base_rank_2016 = GlobalRank(First(BaseRows), call.year2016)
           /\ ret.base_rank_last = GlobalRank(First(BaseRows), call.last_year)
           /\ \E b \in Idx(df) :
                 /\ ReturnedRow(b)
                 /\ ret.cmp_rank_2016 = GlobalRank(b, call.year2016)
                 /\ ret.cmp_rank_last = GlobalRank(b, call.last_year)

\* the target ranked better than the candidate in the base year and worse in
\* the latest year
C7_Witness ==
    /\ InvCall
    /\ ret.kind = "dict"
    /\ ret.base_rank_2016 < ret.cmp_rank_2016
    /\ ret.base_rank_last > ret.cmp_rank_last

\* the qualifying candidates: outside the zone, valued in both years, inverted
Qualifying ==
    {i \in Idx(df) :
        /\ df[i].zone # call.base_zone
        /\ df[i].price[call.year2016] # NA
        /\ df[i].price[call.last_year] # NA
        /\ DeltaBase(i) # 0 /\ DeltaLatest(i) # 0
        /\ DeltaBase(i) < 0 <=> DeltaLatest(i) > 0}

DiffPrice(i) ==
    Abs(df[i].price[call.year2016] - df[First(BaseRows)].price[call.year2016])
Swing(i) == Abs(DeltaLatest(i) - DeltaBase(i))
OwnChange(i) == Abs(GlobalRank(i, call.last_year) - GlobalRank(i, call.year2016))

\* the rows of the search window cand_top
Window == {ret.cand_top[k] : k \in DOMAIN ret.cand_top}

\* C8: inversion-mode selection. The search window holds search_breadth of
\* the qualifying candidates (all of them when there are fewer), none of the
\* candidates left out is strictly closer in base-year valuation than one
\* in the window, and the candidate returned is the one of the window with the
\* largest relative rank swing, then the largest own rank change, then the
\* smallest base-year difference.
C8_InversionSelection ==
    (InvCall /\ ret.kind = "dict") =>
        LET Q == Qualifying
            W == Window
            key == [i \in W |-> <<-Swing(i), -OwnChange(i), DiffPrice(i)>>]
        IN /\ W # {}
           /\ W \subseteq Q
           /\ call.top_n_closest >= 1 =>
                 Cardinality(W) = Min(call.top_n_closest, Cardinality(Q))
           /\ \A i \in W : \A j \in Q \ W : DiffPrice(i) <= DiffPrice(j)
           /\ \E b \in W :
                 /\ ReturnedRow(b)
                 /\ ret.relative_rank_swing = Swing(b)
                 /\ ret.diff_price_2016 = DiffPrice(b)
                 /\ \A j \in W : ~LexLess(key[j], key[b])

\* a window of one candidate that leaves out a qualifying candidate with a
\* larger swing
C8_Witness ==
    /\ InvCall
    /\ ret.kind = "dict"
    /\ call.top_n_closest = 1
    /\ Cardinality(Qualifying) = 2
    /\ \E j \in Qualifying \ Window : Swing(j) > ret.relative_rank_swing

\* both year columns are in the table, the target is found and it has a
\* valuation in both years
InvTargetUsable ==
    /\ call.year2016 \in Columns(df)
    /\ call.last_year \in Columns(df)
    /\ BaseRows # {}
    /\ df[First(BaseRows)].price[call.year2016] # NA
    /\ df[First(BaseRows)].price[call.last_year] # NA

\* the target is found and misses the valuation of one of the two years
InvTargetUnvalued ==
    /\ call.year2016 \in Columns(df)
    /\ call.last_year \in Columns(df)
    /\ BaseRows # {}
    /\ \/ df[First(BaseRows)].price[call.year2016] = NA
       \/ df[First(BaseRows)].price[call.last_year] = NA

\* C11: inversion-mode empty result. The inversion search returns the empty
\* result when a year column is absent, when the target misses a valuation
\* of one of the two years, and when no candidate qualifies; when a
\* candidate qualifies it returns a result whatever search_breadth is, zero
\* and negative values included.
C11_InversionEmptyResult ==
    InvCall =>
        /\ (call.year2016 \notin Columns(df) \/ call.last_year \notin Columns(df))
              => ret = None
        /\ InvTargetUnvalued => ret = None
        /\ InvTargetUsable =>
              LET Q == Qualifying
              IN /\ ret = None <=> Q = {}
                 /\ Q # {} => ret.kind = "dict"

\* a result returned for a search_breadth below one
C11_Witness ==
    /\ InvCall
    /\ call.top_n_closest < 1
    /\ InvTargetUsable
    /\ Qualifying # {}
    /\ ret.kind = "dict"

\* the key of row i of the table
KeyOfRow(i) == <<df[i].zone, df[i].complex, df[i].dong, df[i].ho>>

\* the unit of row i is found with a base-year valuation, so a search for it
\* with no candidate outside the zone ends in the empty-result outcome
TargetWithoutCandidate(i) ==
    /\ call.year2016 \in Columns(df)
    /\ df[First(PickIdx(df, df[i].zone, df[i].complex, df[i].dong, df[i].ho))]
           .price[call.year2016] # NA
    /\ OutOfZone = {}

\* C12: the two failure outcomes of the comparable search differ. What the
\* search returns for a key that matches no row is not what it returns, on
\* the same table and for the same zone, for a target that exists and has no
\* qualifying candidate.
C12_FailureOutcomesDistinct ==
    (SimpleCall /\ call.year2016 \in Columns(df) /\ BaseRows = {}) =>
        \A i \in Idx(df) :
            TargetWithoutCandidate(i) =>
                find_closest_by_2016(df, call.base_zone, KeyOfRow(i), call.year2016)
                    # ret

\* ----------------------------------------------------- claims: price series
SeriesCall == call.op = "build_price_series"

\* the rows matching the key of the request
SeriesRowsOfKey == PickIdx(df, call.zone, call.complex_name, call.dong, call.ho)

\* the years of the list in which the first matching row has a valuation
SeriesYearsWithData ==
    {y \in Range(call.year_cols) :
        /\ y \in Columns(df)
        /\ df[First(SeriesRowsOfKey)].price[y] # NA}

\* C14: build_price_series returns two arrays of equal length; for the first
\* row matching the key they hold exactly the years of the list with a
\* valuation, in the ascending order of the list, and the valuation of each
\* of those years; a missing year has no entry, neither 0 nor a placeholder.
C14_PriceSeries ==
    SeriesCall =>
        /\ Len(ret.years) = Len(ret.prices)
        /\ SeriesRowsOfKey = {} => ret.years = <<>>
        /\ SeriesRowsOfKey # {} =>
              /\ ret.years = SetToSortedSeq(SeriesYearsWithData)
              /\ \A n \in DOMAIN ret.years :
                    ret.prices[n] = df[First(SeriesRowsOfKey)].price[ret.years[n]]

\* two rows match the key with different valuations, and the first of them
\* misses one of the two years asked for
C14_Witness ==
    /\ SeriesCall
    /\ Cardinality(SeriesRowsOfKey) >= 2
    /\ {YEAR_2016, YEAR_LAST} \subseteq Range(call.year_cols)
    /\ Len(ret.years) = 1
    /\ \E i \in SeriesRowsOfKey :
          df[i].price[ret.years[1]] \notin {NA, ret.prices[1]}

\* ------------------------------------------------- claims: series alignment
RaceCall == call.op = "rank_race" /\ ret.kind = "race"

\* the years in which unit k of the comparison has a valuation, hence a rank
YearsOfUnit(k) ==
    {y \in Columns(df) : df[call.units[k]].price[y] # NA}

\* the years in which every unit of the comparison has data
CommonYears ==
    {y \in Columns(df) : \A k \in DOMAIN call.units : y \in YearsOfUnit(k)}

CoerceCall == call.op = "_coerce_numeric"

\* C20: coercer round trip. _coerce_numeric applied to its own output, over
\* the same year columns, gives a table with the same values: a numeric cell
\* keeps its number and a missing cell stays missing.
C20_CoerceRoundTrip ==
    CoerceCall => coerce_numeric(ret.df, call.cols) = ret.df

\* a table in which the first coercion turned a text into a number and
\* another text into a missing cell
C20_Witness ==
    /\ CoerceCall
    /\ \E i \in Idx(df), y \in Range(call.cols) \cap Columns(df) :
          df[i].price[y].t = "str" /\ ret.df[i].price[y].t = "num"
    /\ \E i \in Idx(df), y \in Range(call.cols) \cap Columns(df) :
          df[i].price[y].t = "str" /\ ret.df[i].price[y].t = "na"

\* ------------------------------------------------- claims: read-only table
\* what the query of request c returns when it is run alone on table d
ResultAlone(c, d) ==
    CASE c.op = "compute_rank_tables" ->
           compute_rank_tables(d, year_cols_of(d), c.zone, c.complex_name, c.dong, c.ho)
      [] c.op = "find_closest_by_2016" ->
           find_closest_by_2016(d, c.base_zone, c.base_key, c.year2016)
      [] c.op = "find_closest_by_2016_with_rank_inversion" ->
           find_closest_by_2016_with_rank_inversion(
               d, c.base_zone, c.base_key, c.year2016, c.last_year, c.top_n_closest)
      [] c.op = "build_price_series" ->
           build_price_series(d, c.year_cols, c.zone, c.complex_name, c.dong, c.ho)

\* C18: read-only table. Each of the four queries leaves the normalized
\* table as it was given, rows, columns and values, so a query that follows
\* others on the same table returns what it returns alone on that table.
C18_ReadOnlyTable ==
    [][df' = df /\ ret' = ResultAlone(call', df')]_vars

\* a comparable search that wrote its derived columns to its working frame
\* and returned a result, after which the table is still the one of the
\* inversion family
C18_Witness ==
    /\ call.op = "find_closest_by_2016_with_rank_inversion"
    /\ ret.kind = "dict"
    /\ Cardinality(Qualifying) = 2

\* ------------------------------------------------------- claims: script run
PageShown == call.op = "run" /\ ret.kind = "page"

\* all four identifying columns are in the sheet
SchemaComplete == Range(required) \subseteq df.required

\* the rows of the sheet that cleaning keeps
KeptRows ==
    {i \in 1 .. Len(df.rows) : df.rows[i].ho # NA /\ df.rows[i].zone # "nan"}

\* the columns named by four digits
DetectedYears == {c \in SheetColumns(df) : c >= 1000 /\ c <= 9999}

\* column y has no number in any row kept
EmptyColumn(y) == \A i \in KeptRows : to_numeric(df.rows[i].price[y]).t # "num"

\* the confirm button was clicked with zone, building and unit selected
ConfirmedSelection ==
    /\ PageShown
    /\ call.confirmed_click
    /\ call.zone # NoneZone /\ call.dong_pair # NonePair /\ call.ho # NoneHo

\* C15: audit-log failure isolation. After a confirm click with zone,
\* building and unit selected, a failing append_lookup_log does not abort
\* the request: confirmed is true and the run goes on to compute_rank_tables
\* for the selection, ending with the tables or the error it ends with when
\* the append succeeds.
C15_LogFailureIsolated ==
    (ConfirmedSelection /\ call.log = "raises") =>
        /\ ret.confirmed
        /\ ret.stage \in {"result", "stopped"}
        /\ ret.stage = "result" => ret.tables.kind = "tables"
        /\ LET ok == script_run(df, call.zone, call.dong_pair, call.ho, FALSE, TRUE,
                                "appended")
           IN /\ ret.stage = ok.stage
              /\ ret.error = ok.error
              /\ ret.tables = ok.tables
              /\ ret.confirmed = ok.confirmed

\* a confirm whose log append failed, with a warning and a rank shown
C15_Witness ==
    /\ ConfirmedSelection
    /\ call.log = "raises"
    /\ "log_failed" \in ret.warnings
    /\ ret.stage = "result"
    /\ ret.tables.zone_table # <<>>

\* C16: schema error. When an identifying column is absent the error names
\* every absent identifying column and lists the columns present, and the
\* run halts there with no table.
C16_SchemaErrorNamesAll ==
    (PageShown /\ ~SchemaComplete) =>
        /\ ret.stage = "stopped"
        /\ ret.error.msg = "clean_failed"
        /\ ret.error.missing = Range(required) \ df.required
        /\ ret.error.columns = [required |-> df.required, other |-> SheetColumns(df)]
        /\ ret.tables = NoRet

\* C17: no year columns. When no year column is detected, or every detected
\* year column is empty after coercion, the run halts with an error that is
\* not the schema error, before any selection or ranking; a page with rank
\* tables has a year column with data.
C17_NoYearColumnsHalts ==
    PageShown =>
        /\ ret.error.msg = "clean_failed" <=> ~SchemaComplete
        /\ (SchemaComplete /\ \A y \in DetectedYears : EmptyColumn(y)) =>
              /\ ret.stage = "stopped"
              /\ ret.error.msg = "no_year_data"
              /\ ret.tables = NoRet
              /\ call.zone = NoneZone /\ ~call.confirmed_click
        /\ ret.tables # NoRet =>
              /\ SchemaComplete
              /\ \E y \in DetectedYears : ~EmptyColumn(y)

\* two rows kept and a base-year column detected with no number in it
C17_Witness ==
    /\ PageShown
    /\ SchemaComplete
    /\ Cardinality(KeptRows) >= 2
    /\ YEAR_2016 \in DetectedYears
    /\ \A y \in DetectedYears : EmptyColumn(y)
    /\ ret.error.msg = "no_year_data"
\* --------------------------------------------------- claims: year detection
\* C21: every year returned by _detect_year_cols is four digits and is the
\* name of a column of the table, so the lookups by a detected year that
\* follow (_coerce_numeric, _filter_year_cols_with_data) find their column.
C21_DetectedYearsAreColumns ==
    call.op = "_detect_year_cols" =>
        /\ \A k \in DOMAIN ret.year_cols :
              /\ YEAR_RE_match(ret.year_cols[k])
              /\ ret.year_cols[k] \in Range(df.columns)
        /\ ret.lookups.kind = "ok"

\* ------------------------------------------------------- claims: year set
\* a cell of the cleaned sheet that holds a number
HoldsNumber(c) == c.t = "num" \/ c \in {StrCell("0"), StrCell("1"), StrCell("2")}

\* C25: year_cols holds a detected year column exactly when the column is of
\* 2016 or later and some row has a number in it; it is in the ascending
\* order of the detection and names no column twice.
C25_YearSetHasData ==
    call.op = "year_cols" =>
        /\ Range(ret.year_cols) =
              {y \in Range(ret.year_cols_all) :
                  y >= YEAR_2016 /\ \E i \in Idx(df) : HoldsNumber(df[i].price[y])}
        /\ \A j, k \in DOMAIN ret.year_cols : j < k => ret.year_cols[j] < ret.year_cols[k]

\* C25 witness: of two detected columns of 2016 or later, one without any
\* number is left out and the other is kept
C25_Witness ==
    /\ call.op = "year_cols"
    /\ Len(ret.year_cols_all) = 2
    /\ Len(ret.year_cols) = 1
    /\ \A k \in DOMAIN ret.year_cols_all : ret.year_cols_all[k] >= YEAR_2016
    /\ \E i \in Idx(df) : ~HoldsNumber(df[i].price[ret.year_cols[1]])

\* ------------------------------------------------------- claims: cleaning
\* a cell of df_raw is missing, or is the text nan in some letter case
CellMissing(c) == c.t = "na"
CellIsNanText(c) == c.t = "str" /\ lower(strip(c.v)) = <<"n", "a", "n">>

\* C22: _clean_main_df returns a table; it drops exactly the rows with a
\* missing zone, building, block or unit cell or with the text nan as zone or
\* building, and every row it keeps has a non-empty zone and building text
\* and an integer block and unit.
C22_RowValidation ==
    call.op = "_clean_main_df" =>
        /\ ret.kind = "df"
        /\ {r.row : r \in Range(ret.rows)} =
              {i \in DOMAIN df.rows :
                  /\ ~CellMissing(df.rows[i].zone) /\ ~CellMissing(df.rows[i].complex)
                  /\ ~CellMissing(df.rows[i].dong) /\ ~CellMissing(df.rows[i].ho)
                  /\ ~CellIsNanText(df.rows[i].zone)
                  /\ ~CellIsNanText(df.rows[i].complex)}
        /\ \A r \in Range(ret.rows) :
              /\ r.zone.t = "str" /\ r.zone.v # <<>>
              /\ r.complex.t = "str" /\ r.complex.v # <<>>
              /\ r.dong.t = "num" /\ r.ho.t = "num"

\* ------------------------------------------------- claims: valuation cells
\* a text without its commas
Ungrouped(text) == SelectSeq(text, LAMBDA ch : ch # ",")

\* a comma-grouped numeral, possibly between blanks
IsGroupedNumeral(c) ==
    /\ c.t = "str"
    /\ \E k \in DOMAIN c.v : c.v[k] = ","
    /\ float_of(strip(Ungrouped(c.v))).kind = "float"

\* a cell of the sheet that writes zero, that holds no number, and the number
\* a cell writes
IsZeroCell(c) == c = StrCell("0")
IsMissingCell(c) == c = NaCell \/ c = StrCell("x")
CellNumber(c) == CASE c = StrCell("0") -> 0 [] c = StrCell("1") -> 1

\* the units with a number in year y, and those with a larger number than c
ValuedIn(y) == {j \in Idx(df) : ~IsMissingCell(df[j].price[y])}
AboveIn(y, c) == {j \in ValuedIn(y) : CellNumber(df[j].price[y]) > CellNumber(c)}

\* the rows of a rank table for year y
RowsOfYear(table, y) == {k \in DOMAIN table : table[k].year = y}

\* C24 for the rank tables of unit i: a year with a number, zero included,
\* has a row with that number, ranked behind the larger numbers only and in a
\* pool that counts every valued unit; a year without a number has no row,
\* and no tables are returned only for a unit without a number in any year
ZeroRanked(i) ==
    IF ret.kind # "tables"
    THEN \A y \in Range(year_cols_with_data(df)) : IsMissingCell(df[i].price[y])
    ELSE
    \A y \in Range(year_cols_with_data(df)) :
        LET c == df[i].price[y]
        IN IF IsMissingCell(c)
           THEN RowsOfYear(ret.all_table, y) = {} /\ RowsOfYear(ret.zone_table, y) = {}
           ELSE /\ \E k \in RowsOfYear(ret.all_table, y) :
                     /\ ret.all_table[k].price = CellNumber(c)
                     /\ ret.all_table[k].rank[1] = 1 + Cardinality(AboveIn(y, c))
                     /\ ret.all_table[k].rank[2] >= Cardinality(ValuedIn(y))
                /\ \E k \in RowsOfYear(ret.zone_table, y) :
                     ret.zone_table[k].price = CellNumber(c)

\* C24 for the comparable of unit i: none for a unit without a base-year
\* number; the comparable has a number, the nearest one among the valued units
\* outside the zone, and a unit valued zero there is enough to have one
ZeroComparable(i) ==
    LET c == df[i].price[YEAR_2016]
        outside == {j \in ValuedIn(YEAR_2016) : df[j].zone # df[i].zone}
    IN IF IsMissingCell(c) THEN ret = None
       ELSE /\ ret = None <=> outside = {}
            /\ ret # None =>
                  /\ ret.cmp_ho \in outside
                  /\ ret.cmp_price = CellNumber(df[ret.cmp_ho].price[YEAR_2016])
                  /\ \A j \in outside :
                        ret.diff <= Abs(CellNumber(df[j].price[YEAR_2016]) - CellNumber(c))

\* C24 for the price series of unit i: the years with a number, zero
\* included, and those numbers
ZeroInSeries(i) ==
    /\ ret.years = SelectSeq(year_cols_with_data(df),
                             LAMBDA y : ~IsMissingCell(df[i].price[y]))
    /\ \A n \in DOMAIN ret.years :
          ret.prices[n] = CellNumber(df[i].price[ret.years[n]])

\* C24: a cell that writes 0 is a valuation: it is 0 in df_num, keeps its
\* year column, is ranked, counted, usable as a comparable and part of the
\* price series; an empty cell or a text that is no number is missing in
\* df_num and is nowhere taken for 0.
C24_ZeroIsNotAbsence ==
    call # NoCall =>
        /\ \A j \in Idx(df), y \in Columns(df) :
              /\ IsZeroCell(df[j].price[y]) =>
                    /\ df_num_of(df)[j].price[y] = 0
                    /\ y \in Range(year_cols_with_data(df))
              /\ IsMissingCell(df[j].price[y]) => df_num_of(df)[j].price[y] = NA
        /\ call.op = "compute_rank_tables" => ZeroRanked(call.ho)
        /\ call.op = "find_closest_by_2016" => ZeroComparable(call.base_key[4])
        /\ call.op = "build_price_series" => ZeroInSeries(call.ho)

\* C24 witness: the rank tables of a unit valued zero in the base year, in a
\* table with a unit that has no base-year number
C24_Witness ==
    /\ call.op = "compute_rank_tables"
    /\ IsZeroCell(df[call.ho].price[YEAR_2016])
    /\ \E j \in Idx(df) : IsMissingCell(df[j].price[YEAR_2016])
    /\ RowsOfYear(ret.all_table, YEAR_2016) # {}

\* C23: a comma-grouped numeral in a year column, with or without blanks
\* around it, is parsed to the number it writes and not to a missing value.
C23_GroupedNumeralParsed ==
    call.op = "to_numeric" =>
        \A i \in DOMAIN df :
            IsGroupedNumeral(df[i]) =>
                /\ ret[i].t = "float"
                /\ ret[i].v = float_of(strip(Ungrouped(df[i].v)))

\* ------------------------------------------------------- claims: sheet load
\* the rows of values, counted from 0, among the first 50, whose trimmed cells
\* hold the four column names or the alias set
HeaderCandidates ==
    {i \in 0 .. Len(df.values) - 1 :
        /\ i < 50
        /\ \/ {T_zone, T_complex, T_dong, T_ho} \subseteq
                  {strip(df.values[i + 1][j]) : j \in DOMAIN df.values[i + 1]}
           \/ {T_address, T_complex, T_dong, T_ho} \subseteq
                  {strip(df.values[i + 1][j]) : j \in DOMAIN df.values[i + 1]}}

\* C26: the header row is the lowest of the first 50 rows that holds the four
\* column names or the alias set, row 0 when there is none; the data rows
\* are the rows after the header row, all of them and in their order.
C26_HeaderRowDetection ==
    call.op = "load_from_gsheet" =>
        /\ ret.kind = "df"
        /\ IF HeaderCandidates = {} THEN ret.header_row_index = 0
           ELSE /\ ret.header_row_index \in HeaderCandidates
                /\ \A i \in HeaderCandidates : ret.header_row_index <= i
        /\ Len(ret.rows) = Len(df.values) - ret.header_row_index - 1
        /\ \A k \in DOMAIN ret.rows : ret.rows[k].row = ret.header_row_index + k

\* C26 witness: the only header row of the sheet lies behind the first 50
\* rows, and row 0 is taken as the header
C26_Witness ==
    /\ call.op = "load_from_gsheet"
    /\ HeaderCandidates = {}
    /\ \E i \in DOMAIN df.values : is_header_row(df.values[i])
    /\ ret.header_row_index = 0
    /\ Len(ret.rows) >= 50

\* -------------------------------------------------------- claims: selection
\* C28: whenever session_state["confirmed"] is true after a run, the zone,
\* dong_pair and ho of the session are all chosen, and no run reads a
\* missing selection in the result stage.
C28_ConfirmedSelectionComplete ==
    /\ SessionConfirmed =>
          SessionZone # NoneZone /\ SessionPair # NonePair /\ SessionHo # NoneHo
    /\ ret.kind = "page" => ret.stage # "exception"

\* the selection of a run
SelectionOf(c) == <<c.zone, c.dong_pair, c.ho>>

\* C29: a run shows rank results only if it is the run of a confirm click,
\* which attempts the log append for the selection shown, or the results of
\* the same selection were shown before it; so a run that follows a change
\* of zone, building or unit shows no results.
C29_ResultsFollowConfirmation ==
    [][(ret'.kind = "page" /\ ret'.stage = "result") =>
          \/ call'.confirmed_click /\ call'.log \in LogOutcomes
          \/ /\ ret.kind = "page" /\ ret.stage = "result"
             /\ SelectionOf(call') = SelectionOf(call)]_vars

\* --------------------------------------------------------- claims: rank text
\* C30: the rank parsed from the text _fmt_rank writes for a rank and a pool
\* size is that rank; for a missing rank or pool size the text is empty and
\* its parse is None.
C30_RankTextRoundTrip ==
    call.op = "_fmt_rank" =>
        IF df.rank = NA \/ df.total = NA
        THEN ret.text = <<>> /\ ret.rank = None
        ELSE ret.rank = [kind |-> "int", v |-> df.rank]

\* C30 witness: a rank and a pool size written with commas, read back
C30_Witness ==
    /\ call.op = "_fmt_rank"
    /\ df.rank = 1234567
    /\ df.total = 10337
    /\ ret.text = <<"1", ",", "2", "3", "4", ",", "5", "6", "7", "/", "1", "0", ",", "3", "3", "7">>
    /\ ret.rank = [kind |-> "int", v |-> 1234567]

====
